---- MODULE Spec2Model ----
(***************************************************************************)
(* Model of the neoBot forum bot: the content-extraction pipeline of       *)
(* ForumScraper (scrapeRecentPosts, getPostContent) and the commenting     *)
(* loop of NeoForumBot (commentOnRecentPosts).                             *)
(*                                                                         *)
(* Text is modelled as TLA+ strings, character by character: the string    *)
(* operators below compute what the JavaScript String methods compute.     *)
(* A parsed document (cheerio) is a sequence of nodes in document order;   *)
(* each node carries its tag, classes, attributes, parent, own text and    *)
(* the text that follows it inside its parent.                             *)
(***************************************************************************)
EXTENDS Integers, Sequences, FiniteSets, TLC

(***************************************************************************)
(* JavaScript String methods                                               *)
(***************************************************************************)
Digits == "0123456789"

CharAt(s, i) == SubSeq(s, i, i)

\* the lower-case form of every upper-case letter
LowerOf ==
  [A |-> "a", B |-> "b", C |-> "c", D |-> "d", E |-> "e", F |-> "f", G |-> "g",
   H |-> "h", I |-> "i", J |-> "j", K |-> "k", L |-> "l", M |-> "m", N |-> "n",
   O |-> "o", P |-> "p", Q |-> "q", R |-> "r", S |-> "s", T |-> "t", U |-> "u",
   V |-> "v", W |-> "w", X |-> "x", Y |-> "y", Z |-> "z"]

UpperLetters == DOMAIN LowerOf

DigitChars == {"0", "1", "2", "3", "4", "5", "6", "7", "8", "9"}

IsDigit(c) == c \in DigitChars

\* whitespace as String.prototype.trim and the regex class \s see it
IsSpace(c) == c \in {" ", "\n", "\t", "\r"}

LowerChar(c) == IF c \in UpperLetters THEN LowerOf[c] ELSE c

\* String.prototype.toLowerCase (computed by halves to keep the recursion shallow)
RECURSIVE toLowerCase(_)
toLowerCase(s) ==
  IF Len(s) = 0 THEN ""
  ELSE IF Len(s) = 1 THEN LowerChar(s)
  ELSE LET h == Len(s) \div 2
       IN  toLowerCase(SubSeq(s, 1, h)) \o toLowerCase(SubSeq(s, h + 1, Len(s)))

\* p occurs in s at position i
StartsAt(s, p, i) ==
  /\ i >= 1
  /\ i + Len(p) - 1 <= Len(s)
  /\ SubSeq(s, i, i + Len(p) - 1) = p

\* String.prototype.includes
includes(s, p) == \E i \in 1..(Len(s) - Len(p) + 1) : StartsAt(s, p, i)

\* s.toLowerCase().includes(p)
includesLower(s, p) == includes(toLowerCase(s), p)

\* s.includes(p) for some p of a list: a position of s where one of them starts
includesAny(s, patterns) ==
  LET firsts == {CharAt(patterns[k], 1) : k \in 1..Len(patterns)}
  IN  \E i \in 1..Len(s) :
        /\ CharAt(s, i) \in firsts
        /\ \E k \in 1..Len(patterns) : StartsAt(s, patterns[k], i)

Min(S) == CHOOSE x \in S : \A y \in S : x <= y

\* the k-th smallest element of a set of numbers
Kth(S, k) == CHOOSE x \in S : Cardinality({y \in S : y <= x}) = k

\* position of the first occurrence of p in s at or after from, 0 if none
IndexFrom(s, p, from) ==
  LET hits == {i \in from..(Len(s) - Len(p) + 1) : StartsAt(s, p, i)}
  IN  IF hits = {} THEN 0 ELSE Min(hits)

RECURSIVE trimStart(_)
trimStart(s) ==
  IF s # "" /\ IsSpace(CharAt(s, 1)) THEN trimStart(Tail(s)) ELSE s

RECURSIVE trimEnd(_)
trimEnd(s) ==
  IF s # "" /\ IsSpace(CharAt(s, Len(s)))
  THEN trimEnd(SubSeq(s, 1, Len(s) - 1))
  ELSE s

\* String.prototype.trim
trim(s) == trimEnd(trimStart(s))

\* the pieces of s between the separator positions seps (one-character
\* separators): piece k runs from after the (k-1)-th separator to before the k-th
PiecesBetween(s, seps) ==
  LET n == Cardinality(seps)
  IN  [k \in 1..(n + 1) |->
         SubSeq(s, IF k = 1 THEN 1 ELSE Kth(seps, k - 1) + 1,
                   IF k = n + 1 THEN Len(s) ELSE Kth(seps, k) - 1)]

\* String.prototype.split with a one-character separator
split(s, sep) == PiecesBetween(s, {i \in 1..Len(s) : CharAt(s, i) = sep})

\* Array.prototype.join
RECURSIVE join(_, _)
join(parts, sep) ==
  IF Len(parts) = 0 THEN ""
  ELSE IF Len(parts) = 1 THEN parts[1]
  ELSE parts[1] \o sep \o join(Tail(parts), sep)

\* line.split(' ').length
WordCount(s) == Cardinality({i \in 1..Len(s) : CharAt(s, i) = " "}) + 1

\* Array.prototype.slice(0, n)
slice(seq, n) == SubSeq(seq, 1, IF Len(seq) < n THEN Len(seq) ELSE n)

\* Array.prototype.map(line => line.trim())
mapTrim(seq) == [i \in 1..Len(seq) |-> trim(seq[i])]

\* Array.prototype.includes
arrayIncludes(seq, x) == \E i \in 1..Len(seq) : seq[i] = x

\* (s.match(/p/g) || []).length : the number of non-overlapping matches
RECURSIVE CountMatches(_, _)
CountMatches(s, p) ==
  LET i == IndexFrom(s, p, 1)
  IN  IF i = 0 THEN 0
      ELSE 1 + CountMatches(SubSeq(s, i + Len(p), Len(s)), p)

\* s.replace(/start.*?stop/gi, ''): every case-insensitive, shortest match
\* of start ... stop on one line is removed; stop = "" is the pattern /start/gi
RECURSIVE replaceLazy(_, _, _)
replaceLazy(s, start, stop) ==
  LET low == toLowerCase(s)
      starts == {i \in 1..Len(s) : StartsAt(low, start, i)}
      \* where the shortest match that begins at i ends (exclusive), 0 if none
      StopAt(i) ==
        IF stop = "" THEN i + Len(start)
        ELSE LET j == IndexFrom(low, stop, i + Len(start))
             IN  IF j = 0 \/ includes(SubSeq(s, i + Len(start), j - 1), "\n")
                 THEN 0 ELSE j + Len(stop)
      hits == {i \in starts : StopAt(i) # 0}
  IN  IF hits = {} THEN s
      ELSE SubSeq(s, 1, Min(hits) - 1)
             \o replaceLazy(SubSeq(s, StopAt(Min(hits)), Len(s)), start, stop)

IsSentenceEnd(c) == c \in {".", "!", "?"}

\* s.split(/[.!?]+/): a run of sentence marks is one separator
splitSentences(s) ==
  LET marks == {i \in 1..Len(s) : IsSentenceEnd(CharAt(s, i))}
      firsts == {i \in marks : (i - 1) \notin marks}
      RunEnd(i) == Min({j \in i..Len(s) : (j + 1) \notin marks})
      n == Cardinality(firsts)
  IN  [k \in 1..(n + 1) |->
         SubSeq(s, IF k = 1 THEN 1 ELSE RunEnd(Kth(firsts, k - 1)) + 1,
                   IF k = n + 1 THEN Len(s) ELSE Kth(firsts, k) - 1)]

(***************************************************************************)
(* The parsed document (cheerio.load) and its selector queries             *)
(*                                                                         *)
(* A document is a sequence of nodes in document order (a parent precedes  *)
(* its children).  par = 0 is a child of <body>.  text is the node's own   *)
(* text before its first child, tail the text that follows the node inside *)
(* its parent.  A compound selector is a record of what it requires of one *)
(* element, a complex selector a sequence of compounds joined by the       *)
(* descendant combinator, and a selector list (the commas) a sequence of   *)
(* complex selectors.                                                      *)
(***************************************************************************)
Node(tag, cls, attrs, href, par, text, tail) ==
  [tag |-> tag, cls |-> cls, attrs |-> attrs, href |-> href,
   par |-> par, text |-> text, tail |-> tail]

AnyTag == "*"

\* tag.class1.class2
Sel(tag, cls) ==
  [tag |-> tag, cls |-> cls, nots |-> {}, attr |-> "", sub |-> ""]

\* tag.class:not(.a):not(.b)
SelNot(tag, cls, nots) ==
  [tag |-> tag, cls |-> cls, nots |-> nots, attr |-> "", sub |-> ""]

\* [attr]
SelAttr(attr) ==
  [tag |-> AnyTag, cls |-> {}, nots |-> {}, attr |-> attr, sub |-> ""]

\* [class*="sub"]
SelClassSub(sub) ==
  [tag |-> AnyTag, cls |-> {}, nots |-> {}, attr |-> "", sub |-> sub]

\* one element against one compound selector
MatchesCompound(n, c) ==
  /\ c.tag = AnyTag \/ n.tag = c.tag
  /\ c.cls \subseteq n.cls
  /\ c.nots \cap n.cls = {}
  /\ c.attr = "" \/ c.attr \in n.attrs
  /\ c.sub = "" \/ \E k \in n.cls : includes(k, c.sub)

RECURSIVE Ancestors(_, _)
Ancestors(dom, i) ==
  IF dom[i].par = 0 THEN {} ELSE {dom[i].par} \cup Ancestors(dom, dom[i].par)

\* element i against a complex selector (descendant combinators)
RECURSIVE MatchesComplex(_, _, _)
MatchesComplex(dom, i, cx) ==
  /\ MatchesCompound(dom[i], cx[Len(cx)])
  /\ \/ Len(cx) = 1
     \/ \E a \in Ancestors(dom, i) : MatchesComplex(dom, a, SubSeq(cx, 1, Len(cx) - 1))

MatchesList(dom, i, list) ==
  \E k \in 1..Len(list) : MatchesComplex(dom, i, list[k])

\* $(list): the matching elements, as indices in document order
Select(dom, list) ==
  SelectSeq([i \in 1..Len(dom) |-> i], LAMBDA i : MatchesList(dom, i, list))

Children(dom, i) ==
  SelectSeq([k \in 1..Len(dom) |-> k], LAMBDA k : dom[k].par = i)

\* .text() of one element: its own text and that of all its descendants
RECURSIVE ElementText(_, _)
ElementText(dom, i) ==
  LET kids == Children(dom, i)
      RECURSIVE Rest(_)
      Rest(k) ==
        IF k > Len(kids) THEN ""
        ELSE ElementText(dom, kids[k]) \o dom[kids[k]].tail \o Rest(k + 1)
  IN  dom[i].text \o Rest(1)

\* $(list).text(): the texts of all matched elements, concatenated
RECURSIVE TextOfAll(_, _)
TextOfAll(dom, idx) ==
  IF Len(idx) = 0 THEN ""
  ELSE ElementText(dom, Head(idx)) \o TextOfAll(dom, Tail(idx))

\* $(list).first().text()
TextOfFirst(dom, list) ==
  LET idx == Select(dom, list)
  IN  IF Len(idx) = 0 THEN "" ELSE ElementText(dom, idx[1])

\* $('body').text()
RECURSIVE BodyTextFrom(_, _)
BodyTextFrom(dom, tops) ==
  IF Len(tops) = 0 THEN ""
  ELSE ElementText(dom, Head(tops)) \o dom[Head(tops)].tail
         \o BodyTextFrom(dom, Tail(tops))

BodyText(dom) == BodyTextFrom(dom, Children(dom, 0))

(***************************************************************************)
(* ForumScraper.getPostContent: the stages of the extraction, each a pure  *)
(* function of the rendered page (bodyText, the parsed bodyHTML, title)    *)
(***************************************************************************)
Null == [null |-> TRUE]

\* the waitForFunction predicate: the page counts as rendered
RenderedOk(bodyText) ==
  /\ bodyText # ""
  /\ Len(bodyText) > 100
  /\ ~includes(bodyText, "$undefined")
  /\ ~includes(bodyText, "__className_")

\* line.match(/^August \d+, \d+/)
MatchesDateLine(line) ==
  /\ StartsAt(line, "August ", 1)
  /\ \E k \in 1..Len(line) :
       /\ \A d \in 8..(7 + k) : d <= Len(line) /\ IsDigit(CharAt(line, d))
       /\ StartsAt(line, ", ", 8 + k)
       /\ 10 + k <= Len(line)
       /\ IsDigit(CharAt(line, 10 + k))

\* line.match(/^\d+\s+score$/)
MatchesScoreLine(line) ==
  LET n == Len(line) - Len("score")
  IN  /\ n >= 2
      /\ SubSeq(line, n + 1, Len(line)) = "score"
      /\ \E k \in 1..(n - 1) :
           /\ \A d \in 1..k : IsDigit(CharAt(line, d))
           /\ \A d \in (k + 1)..n : IsSpace(CharAt(line, d))

TitleLineDenylist ==
  <<"neoforum", "explore", "dashboard", "back to forum", "home", "/",
    "score", "music", "topic starter", "edited">>

\* the rendered-text title test of one line
TitleLineOk(line) ==
  LET low == toLowerCase(line)
  IN  /\ Len(line) > 10
      /\ Len(line) < 100
      /\ ~includesAny(low, TitleLineDenylist)
      /\ ~MatchesDateLine(line)
      /\ WordCount(line) > 2
      /\ WordCount(line) < 15

TitleScanLimit == 20

\* title from the first 20 rendered lines
TitleFromText(bodyText) ==
  LET textLines == mapTrim(split(bodyText, "\n"))
      n == IF Len(textLines) < TitleScanLimit THEN Len(textLines) ELSE TitleScanLimit
  IN  IF \E i \in 1..n : TitleLineOk(textLines[i])
      THEN trim(textLines[CHOOSE i \in 1..n :
                  /\ TitleLineOk(textLines[i])
                  /\ \A j \in 1..(i - 1) : ~TitleLineOk(textLines[j])])
      ELSE ""

titleSelectors ==
  << <<<<Sel(AnyTag, {"post-title"})>>>>,
     <<<<Sel(AnyTag, {"topic-title"})>>>>,
     <<<<Sel(AnyTag, {"discussion-title"})>>>>,
     <<<<Sel("article", {}), Sel("h1", {})>>>>,
     <<<<Sel("main", {}), Sel("h1", {})>>>>,
     <<<<Sel(AnyTag, {"content"}), Sel("h1", {})>>>>,
     <<<<SelNot("h1", {}, {"site-title", "forum-title"})>>>>,
     <<<<Sel("h2", {})>>>>,
     <<<<Sel("h3", {})>>>> >>

HtmlTitleOk(titleText) ==
  LET low == toLowerCase(titleText)
  IN  /\ titleText # ""
      /\ low # "neoforum"
      /\ ~includes(low, "forum")
      /\ ~includes(low, "community")
      /\ ~includes(low, "explore")
      /\ ~includes(low, "dashboard")
      /\ Len(titleText) > 5
      /\ Len(titleText) < 200

\* title from the first HTML selector whose first element passes
TitleFromHtml(dom) ==
  LET Cand(k) == trim(TextOfFirst(dom, titleSelectors[k]))
      Ok(k) == Len(Select(dom, titleSelectors[k])) > 0 /\ HtmlTitleOk(Cand(k))
  IN  IF \E k \in 1..Len(titleSelectors) : Ok(k)
      THEN Cand(CHOOSE k \in 1..Len(titleSelectors) :
                  Ok(k) /\ \A j \in 1..(k - 1) : ~Ok(j))
      ELSE ""

\* title from document.title
TitleFromPageTitle(dom, docTitle) ==
  LET pageTitle == IF docTitle # "" THEN docTitle
                   ELSE trim(TextOfAll(dom, Select(dom, <<<<Sel("title", {})>>>>)))
      sepAt == IndexFrom(pageTitle, " - ", 1)
      potentialTitle == trim(SubSeq(pageTitle, 1, sepAt - 1))
  IN  IF sepAt > 0
      THEN IF /\ toLowerCase(potentialTitle) # "neoforum"
              /\ ~includesLower(potentialTitle, "forum")
              /\ Len(potentialTitle) > 5
           THEN potentialTitle ELSE ""
      ELSE IF /\ pageTitle # ""
              /\ toLowerCase(pageTitle) # "neoforum"
              /\ ~includesLower(pageTitle, "forum")
              /\ Len(pageTitle) > 5
              /\ Len(pageTitle) < 200
           THEN pageTitle ELSE ""

\* the three title strategies in the order the code tries them
ExtractTitle(p) ==
  LET t1 == TitleFromText(p.bodyText)
      t2 == TitleFromHtml(p.dom)
  IN  IF t1 # "" THEN t1
      ELSE IF t2 # "" THEN t2
      ELSE TitleFromPageTitle(p.dom, p.title)

(***************************************************************************)
(* getPostContent: the body strategies                                     *)
(***************************************************************************)
LineDenylistLower ==
  <<"neoforum", "community based around", "navigate", "login", "register",
    "search", "home", "explore", "dashboard", "back to forum", "©",
    "privacy", "terms", "forum description", "score", "topic starter",
    "edited", "music">>

LineDenylistExact ==
  <<"$", "__className_", "$undefined", "dangerouslySetInnerHTML", "/">>

\* the classifier with its denylists forgotten: only the length is tested
LineOkLengthOnly(line) == Len(line) > 20

\* the line classifier of the rendered-text body strategy
LineOk(line) ==
  LET low == toLowerCase(line)
  IN  /\ Len(line) > 20
      /\ ~includesAny(low, LineDenylistLower)
      /\ ~includesAny(line, LineDenylistExact)
      /\ ~MatchesScoreLine(line)
      /\ ~MatchesDateLine(line)

PostLineDenylist ==
  <<"reply", "quote", "edit", "share", "like", "report", "delete",
    "bookmark", "weekly">>

PostLineAllowlist ==
  <<"discussion", "looking forward", "everyone", "thoughts", "opinion",
    "what do you think">>

\* the "conversational" test: (substantial && no denylisted word) || allowlisted
PostLineOk(line) ==
  LET low == toLowerCase(line)
  IN  \/ /\ Len(line) > 30
         /\ WordCount(line) > 5
         /\ ~includesAny(low, PostLineDenylist)
      \/ includesAny(low, PostLineAllowlist)

\* lines.sort((a, b) => b.length - a.length): stable, longest first
RECURSIVE sortByLengthDesc(_)
sortByLengthDesc(seq) ==
  IF Len(seq) <= 1 THEN seq
  ELSE LET rest == sortByLengthDesc(Tail(seq))
           x == Head(seq)
           before == SelectSeq(rest, LAMBDA y : Len(y) > Len(x))
           after == SelectSeq(rest, LAMBDA y : Len(y) <= Len(x))
       IN  before \o <<x>> \o after

PostLinesTaken == 5
MeaningfulLinesTaken == 3

\* body and strategy after the rendered-text strategy
BodyFromText(bodyText) ==
  LET lines == SelectSeq(mapTrim(split(bodyText, "\n")), LineOk)
      postLines == SelectSeq(lines, PostLineOk)
      meaningfulLines ==
        slice(sortByLengthDesc(
                SelectSeq(lines, LAMBDA l : Len(l) > 25 /\ WordCount(l) > 4)),
              MeaningfulLinesTaken)
  IN  IF Len(postLines) > 0
      THEN [body |-> trim(join(slice(postLines, PostLinesTaken), " ")),
            strategy |-> "text"]
      ELSE IF Len(meaningfulLines) > 0
      THEN [body |-> trim(join(meaningfulLines, " ")), strategy |-> "textFallback"]
      ELSE [body |-> "", strategy |-> "none"]

bodySelectors ==
  << <<<<Sel(AnyTag, {"post-content"})>>>>,
     <<<<Sel(AnyTag, {"message-content"})>>>>,
     <<<<Sel(AnyTag, {"post-body"})>>>>,
     <<<<Sel(AnyTag, {"topic-content"})>>>>,
     <<<<Sel(AnyTag, {"discussion-content"})>>>>,
     <<<<Sel(AnyTag, {"user-content"})>>>>,
     <<<<Sel(AnyTag, {"post"}), Sel(AnyTag, {"content"})>>>>,
     <<<<Sel(AnyTag, {"message"}), Sel(AnyTag, {"content"})>>>>,
     <<<<Sel(AnyTag, {"topic"}), Sel(AnyTag, {"content"})>>>>,
     <<<<Sel("article", {"post"})>>>>,
     <<<<Sel("article", {"message"})>>>>,
     <<<<Sel("main", {}),
         SelNot(AnyTag, {"content"}, {"forum-description", "category-description"})>>>>,
     <<<<SelNot(AnyTag, {"main-content"},
                {"forum-description", "category-description"})>>>> >>

HtmlDenylistLower ==
  <<"neoforum", "community based around", "forum description", "category:",
    "navigate to", "welcome to", "©", "privacy policy", "terms of service">>

HtmlDenylistExact ==
  <<"$undefined", "__className_", "dangerouslySetInnerHTML", "$L">>

MinBodyChars == 100
MinBodyWords == 20
MaxBodyLines == 50

\* the validation without its length and word-count floor
isValidPostContentNoShape(textContent) ==
  LET low == toLowerCase(textContent)
  IN  /\ Len(split(textContent, "\n")) < MaxBodyLines
      /\ ~includesAny(low, HtmlDenylistLower)
      /\ ~includesAny(textContent, HtmlDenylistExact)
      /\ 10 * CountMatches(textContent, "http") < WordCount(textContent)

\* isValidPostContent
isValidPostContent(textContent) ==
  LET low == toLowerCase(textContent)
  IN  /\ Len(textContent) > MinBodyChars
      /\ WordCount(textContent) > MinBodyWords
      /\ Len(split(textContent, "\n")) < MaxBodyLines
      /\ ~includesAny(low, HtmlDenylistLower)
      /\ ~includesAny(textContent, HtmlDenylistExact)
      /\ 10 * CountMatches(textContent, "http") < WordCount(textContent)

\* body and strategy after the HTML-selector strategy
BodyFromHtml(dom, b) ==
  LET Cand(k) == trim(TextOfAll(dom, Select(dom, bodySelectors[k])))
      Ok(k) == Len(Select(dom, bodySelectors[k])) > 0 /\ isValidPostContent(Cand(k))
  IN  IF b.body = "" \/ Len(b.body) < MinBodyChars
      THEN IF \E k \in 1..Len(bodySelectors) : Ok(k)
           THEN [body |-> Cand(CHOOSE k \in 1..Len(bodySelectors) :
                                 Ok(k) /\ \A j \in 1..(k - 1) : ~Ok(j)),
                 strategy |-> "html"]
           ELSE b
      ELSE b

postContainers ==
  << <<<<Sel(AnyTag, {"post-container"}), Sel(AnyTag, {"content"})>>>>,
     <<<<Sel(AnyTag, {"message-container"}), Sel(AnyTag, {"content"})>>>>,
     <<<<Sel(AnyTag, {"topic-container"}), Sel(AnyTag, {"content"})>>>>,
     <<<<SelAttr("data-post-id"), Sel(AnyTag, {"content"})>>>>,
     <<<<SelClassSub("post-"), Sel(AnyTag, {"content"})>>>> >>

MinContainerChars == 50
MinContainerWords == 10

\* the replace chain of the post-container fallback
FilterContainerText(t) ==
  trim(replaceLazy(replaceLazy(replaceLazy(t, "neoforum", ""),
                               "community based around", "friends"),
                   "forum description", "."))

\* body and strategy after the post-container fallback
BodyFromContainers(dom, b) ==
  LET Cand(k) == FilterContainerText(trim(TextOfAll(dom, Select(dom, postContainers[k]))))
      Ok(k) == /\ Len(Select(dom, postContainers[k])) > 0
               /\ Len(Cand(k)) > MinContainerChars
               /\ WordCount(Cand(k)) > MinContainerWords
  IN  IF b.body = ""
      THEN IF \E k \in 1..Len(postContainers) : Ok(k)
           THEN [body |-> Cand(CHOOSE k \in 1..Len(postContainers) :
                                 Ok(k) /\ \A j \in 1..(k - 1) : ~Ok(j)),
                 strategy |-> "container"]
           ELSE b
      ELSE b

\* the replace chain of the emergency fallback
FilterAllText(t) ==
  LET r1 == replaceLazy(t, "neoforum", "")
      r2 == replaceLazy(r1, "community based around", "friends")
      r3 == replaceLazy(r2, "forum description", ".")
      r4 == replaceLazy(r3, "welcome to", "forum")
      r5 == replaceLazy(r4, "category", ":")
      r6 == replaceLazy(r5, "navigate", "to")
      r7 == replaceLazy(r6, "privacy policy", "")
      r8 == replaceLazy(r7, "terms of service", "")
  IN  trim(r8)

SentenceOk(snt) ==
  /\ Len(snt) > 30
  /\ WordCount(snt) > 5
  /\ ~includesLower(snt, "forum")
  /\ ~includesLower(snt, "community")
  /\ ~includesLower(snt, "navigate")

SentencesTaken == 3

\* body and strategy after the emergency fallback
BodyEmergency(dom, b) ==
  LET sentences ==
        slice(SelectSeq(mapTrim(splitSentences(FilterAllText(BodyText(dom)))),
                        SentenceOk),
              SentencesTaken)
  IN  IF b.body = "" /\ Len(sentences) > 0
      THEN [body |-> join(sentences, ". ") \o ".", strategy |-> "emergency"]
      ELSE b

suspiciousPatterns ==
  <<"neoforum", "community based around", "furry best friends",
    "forum description", "welcome to", "$undefined", "__className_",
    "dangerouslySetInnerHTML", "$L", "precedence", "crossOrigin", "nonce">>

\* the patterns compared as written, without pattern.toLowerCase()
hasSuspiciousContentCaseSensitive(body) ==
  LET low == toLowerCase(body)
  IN  \E k \in 1..Len(suspiciousPatterns) : includes(low, suspiciousPatterns[k])

hasSuspiciousContent(body) ==
  LET low == toLowerCase(body)
  IN  \E k \in 1..Len(suspiciousPatterns) :
        includes(low, toLowerCase(suspiciousPatterns[k]))

\* the final gate: a suspicious body is rejected entirely
SuspiciousGate(b) ==
  IF b.body # "" /\ hasSuspiciousContent(b.body)
  THEN [body |-> "", strategy |-> b.strategy]
  ELSE b

(***************************************************************************)
(* getPostContent: author, timestamp and the existing comments             *)
(***************************************************************************)
FirstNonEmpty(a, b) == IF a # "" THEN a ELSE b

ExtractAuthor(dom) ==
  FirstNonEmpty(
    trim(TextOfFirst(dom, << <<Sel(AnyTag, {"post-author"})>>,
                             <<Sel(AnyTag, {"username"})>> >>)),
    trim(TextOfFirst(dom, << <<SelClassSub("author")>>, <<SelClassSub("user")>>,
                             <<Sel(AnyTag, {"user-info"})>> >>)))

ExtractTimestamp(dom) ==
  FirstNonEmpty(
    trim(TextOfFirst(dom, << <<Sel(AnyTag, {"post-time"})>>,
                             <<Sel(AnyTag, {"timestamp"})>> >>)),
    trim(TextOfFirst(dom, << <<SelClassSub("date")>>, <<SelAttr("data-time")>> >>)))

commentSelectors ==
  << << <<Sel(AnyTag, {"comment"})>>, <<Sel(AnyTag, {"reply"})>> >>,
     << <<Sel(AnyTag, {"comment-content"})>>, <<Sel(AnyTag, {"reply-content"})>> >>,
     << <<Sel(AnyTag, {"post-comment"})>> >>,
     << <<Sel(AnyTag, {"message-reply"})>> >>,
     << <<SelClassSub("comment")>> >>,
     << <<Sel(AnyTag, {"comment-body"})>>, <<Sel(AnyTag, {"reply-body"})>> >> >>

MinCommentChars == 10
MaxCommentChars == 500
MaxComments == 5

\* the callback without its duplicate test
PushCommentNoDedup(comments, commentText) ==
  IF /\ commentText # ""
     /\ Len(commentText) > MinCommentChars
     /\ Len(commentText) < MaxCommentChars
  THEN Append(comments, commentText)
  ELSE comments

\* the callback without its length test
PushCommentNoBounds(comments, commentText) ==
  IF commentText # "" /\ ~arrayIncludes(comments, commentText)
  THEN Append(comments, commentText)
  ELSE comments

\* the body of the .each callback: one element's text is pushed unless it is
\* out of bounds or already collected
PushComment(comments, commentText) ==
  IF /\ commentText # ""
     /\ Len(commentText) > MinCommentChars
     /\ Len(commentText) < MaxCommentChars
     /\ ~arrayIncludes(comments, commentText)
  THEN Append(comments, commentText)
  ELSE comments

\* $(selector).each(...) for one selector pattern
RECURSIVE CollectEach(_, _, _)
CollectEach(dom, idx, comments) ==
  IF Len(idx) = 0 THEN comments
  ELSE CollectEach(dom, Tail(idx),
                   PushComment(comments, trim(ElementText(dom, Head(idx)))))

CollectPattern(dom, k, comments) ==
  CollectEach(dom, Select(dom, commentSelectors[k]), comments)

\* the loop over the selector patterns with its break
RECURSIVE CollectComments(_, _, _)
CollectComments(dom, k, comments) ==
  IF k > Len(commentSelectors) THEN comments
  ELSE LET after == CollectPattern(dom, k, comments)
       IN  IF Len(after) >= MaxComments THEN after
           ELSE CollectComments(dom, k + 1, after)

\* the check forgotten: a body is never reported missing
BodyMissingDropped(b) == FALSE

\* if (!body): no body was found
BodyMissing(b) == b = ""

\* the record built with every collected comment, the slice forgotten
PostContentNoSlice(title, body, author, timestamp, comments, url) ==
  [title |-> title, content |-> body, author |-> author,
   timestamp |-> timestamp, comments |-> comments, url |-> url]

\* the record built with a guessed title where none was found
PostContentGuessedTitle(title, body, author, timestamp, comments, url) ==
  [title |-> IF title = "" THEN url ELSE title, content |-> body,
   author |-> author, timestamp |-> timestamp,
   comments |-> slice(comments, MaxComments), url |-> url]

\* the record getPostContent returns
PostContent(title, body, author, timestamp, comments, url) ==
  [title |-> title, content |-> body, author |-> author,
   timestamp |-> timestamp, comments |-> slice(comments, MaxComments), url |-> url]

\* the body after every strategy and the final gate
ExtractBody(p) ==
  SuspiciousGate(
    BodyEmergency(p.dom,
      BodyFromContainers(p.dom,
        BodyFromHtml(p.dom, BodyFromText(p.bodyText)))))

\* getPostContent as one function of the page the browser rendered
getPostContent(p, postUrl) ==
  IF ~p.loads \/ ~RenderedOk(p.bodyText) THEN Null
  ELSE LET b == ExtractBody(p)
       IN  IF BodyMissing(b.body) THEN Null
           ELSE PostContent(ExtractTitle(p), b.body, ExtractAuthor(p.dom),
                            ExtractTimestamp(p.dom),
                            CollectComments(p.dom, 1, <<>>), postUrl)

(***************************************************************************)
(* The browser side of page.evaluate: document.body.innerText of the       *)
(* rendered document.  Block elements start and end a line, script and     *)
(* style elements are not rendered.                                        *)
(***************************************************************************)
BlockTags ==
  {"div", "p", "h1", "h2", "h3", "article", "main", "nav", "footer",
   "header", "section", "ul", "li", "form"}

HiddenTags == {"script", "style"}

RECURSIVE InnerTextOf(_, _)
InnerTextOf(dom, i) ==
  LET kids == Children(dom, i)
      brk == IF dom[i].tag \in BlockTags THEN "\n" ELSE ""
      RECURSIVE Rest(_)
      Rest(k) ==
        IF k > Len(kids) THEN ""
        ELSE InnerTextOf(dom, kids[k]) \o dom[kids[k]].tail \o Rest(k + 1)
  IN  IF dom[i].tag \in HiddenTags THEN ""
      ELSE brk \o dom[i].text \o Rest(1) \o brk

RECURSIVE InnerTextFrom(_, _)
InnerTextFrom(dom, tops) ==
  IF Len(tops) = 0 THEN ""
  ELSE InnerTextOf(dom, Head(tops)) \o dom[Head(tops)].tail
         \o InnerTextFrom(dom, Tail(tops))

InnerText(dom) == trim(InnerTextFrom(dom, Children(dom, 0)))

(***************************************************************************)
(* Documents.  A page is put together from sections (site header, post,    *)
(* comments, footer); a section is a sequence of nodes whose parents are   *)
(* given relative to the section and shifted when sections are joined.     *)
(***************************************************************************)
Shift(section, by) ==
  [i \in 1..Len(section) |->
     [section[i] EXCEPT !.par = IF section[i].par = 0 THEN 0 ELSE section[i].par + by]]

RECURSIVE JoinSections(_)
JoinSections(sections) ==
  IF Len(sections) = 0 THEN <<>>
  ELSE LET front == JoinSections(SubSeq(sections, 1, Len(sections) - 1))
       IN  front \o Shift(sections[Len(sections)], Len(front))

Block(tag, cls, text) == Node(tag, cls, {}, "", 0, text, "\n")

NavText == "Home Explore Dashboard Login Register Search Members Help"
FooterText == "© 2024 NeoForum. All rights reserved. Privacy Policy Terms of Service"
SiteDescription == "A community based around our furry best friends"

HeaderSections ==
  << <<>>,
     <<Block("nav", {}, NavText)>>,
     <<Block("h1", {"site-title"}, "NeoForum"),
       Block("p", {"forum-description"}, SiteDescription),
       Block("nav", {}, NavText)>> >>

FooterSections ==
  << <<>>, <<Block("footer", {}, FooterText)>> >>

LongBody ==
  "I have been training my puppy for three months now and wanted to tell you what worked for us, because the first weeks were really hard and we almost gave up."
SearchBody ==
  "After a long search I finally found a trainer near my home who works with rescue dogs, and the change in just four sessions has been amazing for both of us."
ShortBody == "I really enjoy painting landscapes on weekends"
LakeBody == "We went to the lake near my home and the dogs loved every minute of it"
WelcomeBody ==
  "NeoForum is a community based around our furry best friends and everyone is welcome to join the conversation today"
BoilerBody ==
  "NeoForum is a community based around our furry best friends and everyone can join the conversation any day"
PrecedenceBody ==
  "The precedence of these operators matters a lot when you write parsers by hand"
CrossOriginBody ==
  "Set the crossOrigin attribute on every image tag before you draw it to a canvas"
HydrationText ==
  "self.__next_f.push([1, $undefined, __className_e8ce0c]) and the serialized props of the page keep going for a while"
CheckinBody ==
  "Let's discuss recent trends, what has everyone been working on this week? Looking forward to your thoughts."
ReplyLine == "Click reply to answer below"
PriceBody ==
  "The whole training kit cost me $40 at the pet store and it was worth every cent"

PostSections ==
  << <<>>,
     <<Block("div", {"post-content"}, LongBody)>>,
     <<Block("div", {"post-content"}, SearchBody)>>,
     <<Block("div", {}, ShortBody)>>,
     <<Block("div", {"post-container"}, ""),
       Node("div", {"content"}, {}, "", 1, LakeBody, "")>>,
     <<Block("div", {"post-container"}, ""),
       Node("div", {"content"}, {}, "", 1, WelcomeBody, "")>>,
     <<Block("div", {"post-container"}, ""),
       Node("div", {"content"}, {}, "", 1, BoilerBody, "")>>,
     <<Block("div", {}, PrecedenceBody)>>,
     <<Block("div", {}, CrossOriginBody)>>,
     <<Block("script", {}, HydrationText)>>,
     <<Block("h1", {}, "Weekly Check-in"),
       Block("p", {}, CheckinBody),
       Block("div", {"post-meta"}, ""),
       Node("span", {"username"}, {}, "", 3, "alice", " "),
       Node("span", {"timestamp"}, {}, "", 3, "2 hours ago", "")>>,
     <<Block("div", {"post-content"}, WelcomeBody \o " " \o LongBody)>>,
     <<Block("div", {}, ReplyLine)>>,
     <<Block("div", {"post-content"}, LakeBody)>>,
     <<Block("div", {}, PriceBody)>> >>


\* the existing comments of a page: one element per kind, in order
RECURSIVE Repeat(_, _)
Repeat(str, n) == IF n = 0 THEN "" ELSE str \o Repeat(str, n - 1)

SameComment == "Thanks for posting this, it helped me a lot"
ShortComment == "Nice post!"
LongComment == "Edited to add the whole story. " \o Repeat(LongBody \o " ", 4)
FreshComment(j) ==
  "Reader " \o CharAt(Digits, j + 1) \o " here, we had the very same problem last year"
NestedComment(j) ==
  "My dog number " \o CharAt(Digits, j + 1) \o " learned this in a week or so"

CommentKinds == {"plain", "nested", "same", "short", "long"}

CommentSection(kind, j) ==
  CASE kind = "plain" -> <<Block("div", {"comment"}, FreshComment(j))>>
    [] kind = "same" -> <<Block("div", {"comment"}, SameComment)>>
    [] kind = "short" -> <<Block("div", {"comment"}, ShortComment)>>
    [] kind = "long" -> <<Block("div", {"comment"}, LongComment)>>
    [] kind = "nested" ->
         <<Block("div", {"comment"}, ""),
           Node("span", {"comment-author"}, {}, "", 1, "bob", " "),
           Node("div", {"comment-content"}, {}, "", 1, NestedComment(j), "")>>

CommentSections(kinds) ==
  JoinSections([j \in 1..Len(kinds) |-> CommentSection(kinds[j], j)])

\* the document a descriptor stands for, as cheerio parses its bodyHTML
DomOf(d) ==
  JoinSections(<<HeaderSections[d.header], PostSections[d.post],
                 CommentSections(d.comments), FooterSections[d.footer]>>)

\* the page a descriptor stands for, as page.evaluate hands it to the scraper
PageOf(d) ==
  [bodyText |-> InnerText(DomOf(d)), dom |-> DomOf(d), title |-> d.docTitle,
   loads |-> d.loads]

PageDesc(header, post, comments, footer, docTitle, loads) ==
  [header |-> header, post |-> post, comments |-> comments, footer |-> footer,
   docTitle |-> docTitle, loads |-> loads]

MaxCommentElems == 3

RECURSIVE SeqsUpTo(_, _)
SeqsUpTo(S, n) ==
  IF n = 0 THEN {<<>>}
  ELSE LET shorter == SeqsUpTo(S, n - 1)
       IN  shorter \cup {Append(q, x) : q \in shorter, x \in S}

SiteTitle == "NeoForum"

\* pages that differ in what the body strategies find
BodyPages ==
  {PageDesc(h, m, c, f, SiteTitle, TRUE) :
     h \in 1..Len(HeaderSections), m \in 1..Len(PostSections),
     c \in {<<>>, <<"plain", "same", "same">>}, f \in 1..Len(FooterSections)}

\* pages that differ in their existing comments
CommentPages ==
  {PageDesc(2, 2, c, 2, "Puppy training - NeoForum", TRUE) :
     c \in SeqsUpTo(CommentKinds, MaxCommentElems)}

\* a page the browser fails to load
BrokenPages == {PageDesc(1, 1, <<>>, 1, "", FALSE)}

\* pages whose title is found in neither the rendered text nor the HTML, and
\* that differ in document.title
PageTitles ==
  {"Puppy training - NeoForum", "Crate training - week two - NeoForum",
   "Crate training for puppies", "Forum - Crate training", "Tips - NeoForum"}

TitlePages == {PageDesc(2, 2, <<>>, 2, t, TRUE) : t \in PageTitles}

DetailPages == BodyPages \cup CommentPages \cup BrokenPages \cup TitlePages

(***************************************************************************)
(* ForumScraper.scrapeRecentPosts: the card strategy, the global anchor    *)
(* scan and the truncation to limit                                        *)
(***************************************************************************)
\* $(el).find(list): the descendants of el that match
FindIn(dom, el, list) ==
  SelectSeq([i \in 1..Len(dom) |-> i],
            LAMBDA i : el \in Ancestors(dom, i) /\ MatchesList(dom, i, list))

\* $(el).find(list).first().text().trim()
FirstTextIn(dom, el, list) ==
  LET idx == FindIn(dom, el, list)
  IN  IF Len(idx) = 0 THEN "" ELSE trim(ElementText(dom, idx[1]))

\* href && href.includes('/forum/') && href.includes('/post/')
IsPostHref(href) ==
  href # "" /\ includes(href, "/forum/") /\ includes(href, "/post/")

AnchorSel == << <<Sel("a", {})>> >>
HeadingSel == << <<Sel("h3", {})>> >>
CardSel == << <<Sel("div", {"rounded-lg", "group"})>> >>

contentSelectors ==
  << << <<Sel(AnyTag, {"post-preview"})>>, <<Sel(AnyTag, {"post-excerpt"})>> >>,
     << <<Sel(AnyTag, {"content-preview"})>> >>,
     << <<Sel("p", {})>> >>,
     << <<Sel(AnyTag, {"description"})>> >>,
     << <<Sel(AnyTag, {"summary"})>> >> >>

authorSelectors ==
  << << <<Sel(AnyTag, {"author"})>>, <<Sel(AnyTag, {"username"})>>,
        <<Sel(AnyTag, {"poster"})>>, <<SelClassSub("user")>> >> >>

MinPreviewChars == 20
MaxCardPreviewChars == 300
MaxGlobalPreviewChars == 200

\* the content preview of a card: the first selector with a fitting text
CardPreview(dom, el) ==
  LET Cand(k) == FirstTextIn(dom, el, contentSelectors[k])
      Ok(k) == /\ Cand(k) # ""
               /\ Len(Cand(k)) > MinPreviewChars
               /\ Len(Cand(k)) < MaxCardPreviewChars
  IN  IF \E k \in 1..Len(contentSelectors) : Ok(k)
      THEN Cand(CHOOSE k \in 1..Len(contentSelectors) :
                  Ok(k) /\ \A j \in 1..(k - 1) : ~Ok(j))
      ELSE ""

CardAuthor(dom, el) == FirstTextIn(dom, el, authorSelectors[1])

\* the first anchor of a card with a post href, 0 if there is none
CardAnchor(dom, el) ==
  LET anchors == SelectSeq(FindIn(dom, el, AnchorSel),
                           LAMBDA a : IsPostHref(dom[a].href))
  IN  IF Len(anchors) = 0 THEN 0 ELSE anchors[1]

\* the title of a card: the text of the h3 inside its anchor
CardTitle(dom, anchor) ==
  LET h3 == FindIn(dom, anchor, HeadingSel)
  IN  IF Len(h3) > 0 THEN trim(TextOfAll(dom, h3)) ELSE ""

\* a summary is pushed whatever its title
KeepSummaryAlways(title, href) == href # ""

\* if (title && href)
KeepSummary(title, href) == title # "" /\ href # ""

\* the callback of $("div.rounded-lg.group").each for one card: the
\* summaries (none or one) it pushes
CardSummary(dom, el) ==
  LET anchor == CardAnchor(dom, el)
  IN  IF anchor = 0 THEN <<>>
      ELSE IF KeepSummary(CardTitle(dom, anchor), dom[anchor].href)
      THEN <<[title |-> CardTitle(dom, anchor), link |-> dom[anchor].href,
              content |-> CardPreview(dom, el), author |-> CardAuthor(dom, el)]>>
      ELSE <<>>

\* the title of an anchor in the global scan: its h3 if it has one, else
\* its own text
GlobalTitle(dom, a) ==
  LET h3InA == FindIn(dom, a, HeadingSel)
  IN  IF Len(h3InA) > 0 THEN trim(TextOfAll(dom, h3InA))
      ELSE trim(ElementText(dom, a))

PreviewSel ==
  << <<Sel("p", {})>>, <<Sel(AnyTag, {"content"})>>, <<Sel(AnyTag, {"preview"})>> >>

\* $(a).parent().find('p, .content, .preview').first().text().trim()
GlobalPreview(dom, a) ==
  LET idx == SelectSeq([i \in 1..Len(dom) |-> i],
                       LAMBDA i : /\ dom[a].par = 0 \/ dom[a].par \in Ancestors(dom, i)
                                  /\ MatchesList(dom, i, PreviewSel))
      contentText == IF Len(idx) = 0 THEN "" ELSE trim(ElementText(dom, idx[1]))
  IN  IF /\ contentText # ""
         /\ Len(contentText) > MinPreviewChars
         /\ Len(contentText) < MaxGlobalPreviewChars
      THEN contentText ELSE ""

\* the callback of $('a').each for one anchor
AnchorSummary(dom, a) ==
  IF IsPostHref(dom[a].href) /\ KeepSummary(GlobalTitle(dom, a), dom[a].href)
  THEN <<[title |-> GlobalTitle(dom, a), link |-> dom[a].href,
          content |-> GlobalPreview(dom, a)]>>
  ELSE <<>>

\* $(...).each over the cards, then over the anchors, in document order:
\* the summaries pushed and the elements they come from
RECURSIVE EachCard(_, _)
EachCard(dom, idx) ==
  IF Len(idx) = 0 THEN [posts |-> <<>>, srcs |-> <<>>]
  ELSE LET one == CardSummary(dom, Head(idx))
           rest == EachCard(dom, Tail(idx))
       IN  [posts |-> one \o rest.posts,
            srcs |-> (IF Len(one) = 0 THEN <<>> ELSE <<Head(idx)>>) \o rest.srcs]

RECURSIVE EachAnchor(_, _)
EachAnchor(dom, idx) ==
  IF Len(idx) = 0 THEN [posts |-> <<>>, srcs |-> <<>>]
  ELSE LET one == AnchorSummary(dom, Head(idx))
           rest == EachAnchor(dom, Tail(idx))
       IN  [posts |-> one \o rest.posts,
            srcs |-> (IF Len(one) = 0 THEN <<>> ELSE <<Head(idx)>>) \o rest.srcs]

\* the limit applied one entry too late
TruncateOffByOne(posts, lim) ==
  IF Len(posts) > lim + 1 THEN SubSeq(posts, 1, lim + 1) ELSE posts

\* if (recentPosts.length > limit) recentPosts.splice(limit)
Truncate(posts, lim) ==
  IF Len(posts) > lim THEN SubSeq(posts, 1, lim) ELSE posts

\* the global scan run whatever the card strategy found
NeedsGlobalScanAlways(posts) == TRUE

\* if (recentPosts.length === 0)
NeedsGlobalScan(posts) == Len(posts) = 0

\* scrapeRecentPosts as one function of the parsed category page
scrapeRecentPosts(dom, lim) ==
  LET cards == EachCard(dom, Select(dom, CardSel)).posts
  IN  Truncate(IF NeedsGlobalScan(cards)
               THEN EachAnchor(dom, Select(dom, AnchorSel)).posts
               ELSE cards,
               lim)

(***************************************************************************)
(* Category pages: a sequence of listing items, item j linking to post j   *)
(***************************************************************************)
PostLink(j) == "/forum/general/post/" \o CharAt(Digits, j + 1)
PreviewText == "A short preview of what this post is about"

ListingKinds ==
  {"card", "cardNoHeading", "cardNoPost", "anchor", "anchorHeading",
   "anchorEmptyHeading", "anchorEmpty", "anchorPostOnly", "anchorTwice"}

Card == Node("div", {"rounded-lg", "group"}, {}, "", 0, "", "\n")

ListingItem(kind, j) ==
  CASE kind = "card" ->
         <<Card,
           Node("a", {}, {}, PostLink(j), 1, "", ""),
           Node("h3", {}, {}, "", 2, "Card post " \o CharAt(Digits, j + 1), ""),
           Node("p", {}, {}, "", 1, PreviewText, ""),
           Node("span", {"author"}, {}, "", 1, "alice", "")>>
    [] kind = "cardNoHeading" ->
         <<Card, Node("a", {}, {}, PostLink(j), 1, "Untitled card link", "")>>
    [] kind = "cardNoPost" ->
         <<Card,
           Node("a", {}, {}, "/forum/general", 1, "", ""),
           Node("h3", {}, {}, "", 2, "General", "")>>
    [] kind = "anchor" ->
         <<Node("a", {}, {}, PostLink(j), 0,
                " Bare post " \o CharAt(Digits, j + 1) \o " ", "\n")>>
    [] kind = "anchorHeading" ->
         <<Node("a", {}, {}, PostLink(j), 0, "", "\n"),
           Node("h3", {}, {}, "", 1, "Heading post " \o CharAt(Digits, j + 1), "more")>>
    [] kind = "anchorEmptyHeading" ->
         <<Node("a", {}, {}, PostLink(j), 0, "", "\n"),
           Node("h3", {}, {}, "", 1, " ", "Read more")>>
    [] kind = "anchorEmpty" ->
         <<Node("a", {}, {}, PostLink(j), 0, " ", "\n")>>
    [] kind = "anchorPostOnly" ->
         <<Node("a", {}, {}, "/post/" \o CharAt(Digits, j + 1), 0, "Old style link", "\n")>>
    [] kind = "anchorTwice" ->
         <<Node("a", {}, {}, PostLink(j), 0, "Linked post " \o CharAt(Digits, j + 1), " "),
           Node("a", {}, {}, PostLink(j), 0, "Read more", "\n")>>

ListingDom(kinds) ==
  JoinSections([j \in 1..Len(kinds) |-> ListingItem(kinds[j], j)])

MaxListItems == 3
MaxLimit == 3

(***************************************************************************)
(* NeoForumBot.commentOnRecentPosts: the comment form of a post page       *)
(*                                                                         *)
(* A form is what the page offers the bot: whether a comment box is found, *)
(* and its buttons in document order, each with its text, the positions in *)
(* submitSelectors of the selectors it matches, and whether it is a        *)
(* <button> element.                                                       *)
(***************************************************************************)
submitKeywords ==
  <<"post", "submit", "reply", "send", "comment", "add comment", "post comment">>
excludeKeywords ==
  <<"explore", "cancel", "back", "edit", "delete", "share", "like", "vote">>
strongSubmitKeywords == <<"post comment", "add comment", "submit", "post", "reply">>
genericExcludeKeywords ==
  <<"explore", "cancel", "back", "edit", "delete", "share", "like", "vote",
    "search", "filter", "sort", "menu", "dropdown">>

SubmitSelectorCount == 8
MaxGenericButtonText == 50

AnyKeyword(text, words) ==
  \E k \in 1..Len(words) : includes(toLowerCase(text), words[k])

\* the test without its exclusion: isSubmitButton alone
LooksLikeSubmitNoExclude(text) == AnyKeyword(text, submitKeywords)

\* isSubmitButton && !isExcluded
LooksLikeSubmit(text) ==
  AnyKeyword(text, submitKeywords) /\ ~AnyKeyword(text, excludeKeywords)

\* isStrongSubmit && !isExcluded && buttonText.length < 50
LooksLikeGenericSubmit(text) ==
  /\ AnyKeyword(text, strongSubmitKeywords)
  /\ ~AnyKeyword(text, genericExcludeKeywords)
  /\ Len(text) < MaxGenericButtonText

\* first pass: per selector, the first button whose text looks like submit
FirstPassButton(buttons) ==
  LET Hit(k, b) == k \in buttons[b].sels /\ LooksLikeSubmit(trim(buttons[b].text))
      Found(k) == \E b \in 1..Len(buttons) : Hit(k, b)
  IN  IF \E k \in 1..SubmitSelectorCount : Found(k)
      THEN LET k == Min({j \in 1..SubmitSelectorCount : Found(j)})
           IN  Min({b \in 1..Len(buttons) : Hit(k, b)})
      ELSE 0

\* second pass: the first <button> that passes the stricter test
SecondPassButton(buttons) ==
  LET hits == {b \in 1..Len(buttons) :
                 buttons[b].isButton /\ LooksLikeGenericSubmit(trim(buttons[b].text))}
  IN  IF hits = {} THEN 0 ELSE Min(hits)

\* the button the bot will click, 0 if it finds none
FindSubmitButton(buttons) ==
  IF FirstPassButton(buttons) # 0 THEN FirstPassButton(buttons)
  ELSE SecondPassButton(buttons)

Button(text, sels, isButton) == [text |-> text, sels |-> sels, isButton |-> isButton]

Forms ==
  { [box |-> FALSE, buttons |-> <<>>],
    [box |-> TRUE,
     buttons |-> <<Button("Cancel", {2}, TRUE), Button("Share post", {2}, TRUE),
                   Button(" Post Comment ", {2}, TRUE)>>],
    [box |-> TRUE, buttons |-> <<Button("Search", {}, TRUE)>>] }

\* the pages behind the links of a category: one with a short post, one
\* whose body the final gate rejects, one that fails to load
BotPages ==
  { PageDesc(2, 4, <<>>, 2, SiteTitle, TRUE),
    PageDesc(1, 9, <<>>, 2, SiteTitle, TRUE),
    PageDesc(1, 1, <<>>, 1, SiteTitle, FALSE) }

ForumUrl == "https://forum.example"

MaxBotPosts == 2

\* the recent posts handed to the bot: post j of the category
Summary(j) ==
  [title |-> "Card post " \o CharAt(Digits, j + 1), link |-> PostLink(j),
   content |-> "", author |-> ""]

\* the break taken in place of continue
NextIndexAfterSkipBreak(i, n) == n + 1

\* continue: the loop goes on with the next post
NextIndexAfterSkip(i, n) == i + 1

\* if (!postContent || !postContent.content)
ShouldSkip(content) == IF content = Null THEN TRUE ELSE content.content = ""

\* what the API may answer once trimmed: some text, or nothing but blanks
ApiComments == {"Great write-up, have you tried shorter sessions?", ""}

fallbackComments ==
  << <<"Great points about ", "! I'd love to hear more perspectives on this.">>,
     <<"Thanks for sharing this insight on ", ". What do others think?">>,
     <<"Interesting discussion about ", ". Has anyone else experienced something similar?">>,
     <<"This is a valuable topic. I'm curious about other approaches to ", ".">>,
     <<"Good question about ", "! Looking forward to seeing what the community thinks.">>,
     <<"Thanks for bringing up ", ". This could lead to some great discussion.">>,
     <<"Thoughtful post about ", ". What are your thoughts, community?">>,
     <<"I appreciate you sharing this about ", ". Any other insights to add?">> >>

\* generateFallbackComment(topic): any of the templates, chosen at random
generateFallbackComment(topic) ==
  {fallbackComments[k][1] \o topic \o fallbackComments[k][2] :
     k \in 1..Len(fallbackComments)}

\* what openai.chat.completions.create may do: reject, or resolve with a
\* response whose message content is missing or empty, is text, or is
\* nothing but blanks
ApiResponses ==
  {[kind |-> "error", content |-> ""],
   [kind |-> "response", content |-> ""],
   [kind |-> "response",
    content |-> " Great write-up, have you tried shorter sessions?\n"],
   [kind |-> "response", content |-> " \n"]}

NoResponse == [kind |-> "none", content |-> ""]

\* generateComment(post, recentPosts) for one answer of the API: the
\* trimmed content, or, when the call fails or the content is missing, a
\* fallback for post.title || 'the topic'
generateCommentFor(post, response) ==
  IF response.kind = "error" \/ response.content = ""
  THEN generateFallbackComment(IF post.title # "" THEN post.title ELSE "the topic")
  ELSE {trim(response.content)}

\* generateComment(post, recentPosts): the API text, or on any error the
\* fallback for post.title || 'the topic'
generateComment(post) ==
  UNION {generateCommentFor(post, response) : response \in ApiResponses}

(***************************************************************************)
(* ForumScraper: its constructor, scrapeCategories and scrapeForumStats,   *)
(* and the try/catch that closes each of its four public methods           *)
(***************************************************************************)
defaultCategories ==
  <<"General Discussion", "Tech Talk", "Gaming", "Random Thoughts",
    "News & Updates", "Help & Support">>

\* new ForumScraper(): the instance and its one field
ForumScraper == [defaultCategories |-> defaultCategories]

\* how a call ends: it returns a value, or an exception leaves it
Return(v) == [type |-> "return", value |-> v]
Throw == [type |-> "throw", value |-> "Error"]

categorySelectors ==
  << << <<Sel(AnyTag, {"forum-category-list"}), Sel(AnyTag, {"forum-category"})>> >>,
     << <<Sel(AnyTag, {"category-list"}), Sel(AnyTag, {"category"})>> >>,
     << <<Sel(AnyTag, {"category-card"})>> >>,
     << <<Sel(AnyTag, {"category-title"})>> >>,
     << <<Sel(AnyTag, {"forum-category-list"}), Sel("a", {})>> >> >>

\* the body of the .each callback of scrapeCategories
PushCategory(categories, categoryName) ==
  IF categoryName # "" /\ ~arrayIncludes(categories, categoryName)
  THEN Append(categories, categoryName)
  ELSE categories

RECURSIVE EachCategory(_, _, _)
EachCategory(dom, idx, categories) ==
  IF Len(idx) = 0 THEN categories
  ELSE EachCategory(dom, Tail(idx),
                    PushCategory(categories, trim(ElementText(dom, Head(idx)))))

\* the loop over categorySelectors with its break
RECURSIVE CategoriesFrom(_, _, _)
CategoriesFrom(dom, k, categories) ==
  IF k > Len(categorySelectors) THEN categories
  ELSE LET after == EachCategory(dom, Select(dom, categorySelectors[k]), categories)
       IN  IF Len(after) > 0 THEN after ELSE CategoriesFrom(dom, k + 1, after)

\* the catch block missing: the error of page.content() leaves the method
scrapeCategoriesRethrow(self) == Throw

\* catch (error) { return this.defaultCategories }
scrapeCategoriesCatch(self) == Return(self.defaultCategories)

scrapeCategories(self, p) ==
  IF ~p.loads THEN scrapeCategoriesCatch(self)
  ELSE LET categories == CategoriesFrom(p.dom, 1, <<>>)
       IN  Return(IF Len(categories) = 0 THEN self.defaultCategories ELSE categories)

\* text.match(/\d+/): the first run of digits, "" when there is none
RECURSIVE DigitRun(_, _)
DigitRun(text, i) ==
  IF i <= Len(text) /\ IsDigit(CharAt(text, i))
  THEN CharAt(text, i) \o DigitRun(text, i + 1)
  ELSE ""

FirstDigits(text) ==
  LET at == {i \in 1..Len(text) : IsDigit(CharAt(text, i))}
  IN  IF at = {} THEN "" ELSE DigitRun(text, Min(at))

DigitValue(c) == CHOOSE v \in 0..9 : CharAt(Digits, v + 1) = c

\* parseInt of a string of digits
RECURSIVE parseInt(_)
parseInt(s) ==
  IF Len(s) = 0 THEN 0
  ELSE 10 * parseInt(SubSeq(s, 1, Len(s) - 1)) + DigitValue(CharAt(s, Len(s)))

extractNumber(dom, list) ==
  LET match == FirstDigits(TextOfAll(dom, Select(dom, list)))
  IN  IF match # "" THEN parseInt(match) ELSE 0

\* the object {}
EmptyStats == [empty |-> TRUE]

\* catch (error) { return {} }
scrapeForumStatsCatch == Return(EmptyStats)

scrapeForumStats(self, p) ==
  IF ~p.loads THEN scrapeForumStatsCatch
  ELSE Return(
       [totalPosts |-> extractNumber(p.dom, << <<Sel(AnyTag, {"total-posts"})>>,
                                               <<Sel(AnyTag, {"post-count"})>> >>),
        totalUsers |-> extractNumber(p.dom, << <<Sel(AnyTag, {"total-users"})>>,
                                               <<Sel(AnyTag, {"user-count"})>> >>),
        onlineUsers |-> extractNumber(p.dom, << <<Sel(AnyTag, {"online-users"})>>,
                                                <<Sel(AnyTag, {"users-online"})>> >>),
        totalTopics |-> extractNumber(p.dom, << <<Sel(AnyTag, {"total-topics"})>>,
                                                <<Sel(AnyTag, {"topic-count"})>> >>)])

\* catch (error) { ...; return [] }
scrapeRecentPostsCatch == Return(<<>>)

\* scrapeRecentPosts inside its try/catch
scrapeRecentPostsOf(p, lim) ==
  IF ~p.loads THEN scrapeRecentPostsCatch ELSE Return(scrapeRecentPosts(p.dom, lim))

\* catch (error) { ...; return null }
getPostContentCatch == Return(Null)

\* getPostContent inside its try/catch: page.goto, the waits and
\* page.evaluate throw when the page does not load
getPostContentOf(p, postUrl) ==
  IF ~p.loads THEN getPostContentCatch ELSE Return(getPostContent(p, postUrl))

(***************************************************************************)
(* Documents handed to the ForumScraper methods: category pages, listing   *)
(* pages and post pages, each loading or failing to load                   *)
(***************************************************************************)
CategoryItem(kind, j) ==
  CASE kind = "main" ->
         <<Node("div", {"forum-category-list"}, {}, "", 0, "", "\n"),
           Node("div", {"forum-category"}, {}, "", 1, " Puppies ", ""),
           Node("div", {"forum-category"}, {}, "", 1, "Puppies", ""),
           Node("div", {"forum-category"}, {}, "", 1, "Kittens", "")>>
    [] kind = "alt" ->
         <<Node("ul", {"category-list"}, {}, "", 0, "", "\n"),
           Node("li", {"category"}, {}, "", 1, "Cats", "")>>
    [] kind = "card" ->
         <<Node("div", {"category-card"}, {}, "", 0,
                "Birds " \o CharAt(Digits, j + 1), "\n")>>
    [] kind = "title" ->
         <<Node("h3", {"category-title"}, {}, "", 0, "Fish", "\n")>>
    [] kind = "link" ->
         <<Node("nav", {"forum-category-list"}, {}, "", 0, "", "\n"),
           Node("a", {}, {}, "/forum/reptiles", 1, "Reptiles", "")>>
    [] kind = "blank" ->
         <<Node("div", {"category-card"}, {}, "", 0, "  ", "\n")>>
    [] kind = "stats" ->
         <<Node("span", {"total-posts"}, {}, "", 0, "1204 posts", " "),
           Node("span", {"user-count"}, {}, "", 0, "87 members", " "),
           Node("span", {"users-online"}, {}, "", 0, "nobody online", "\n")>>

CategoryDom(kinds) ==
  JoinSections([j \in 1..Len(kinds) |-> CategoryItem(kinds[j], j)])

Doc(kind, items, post, loads) ==
  [kind |-> kind, items |-> items, post |-> post, loads |-> loads]

CategoryDocs ==
  {Doc("categories", c, 0, TRUE) :
     c \in {<<>>, <<"main">>, <<"alt", "card">>, <<"card", "card">>,
            <<"blank", "title">>, <<"link">>, <<"blank">>, <<"stats">>,
            <<"stats", "main">>}}
    \cup {Doc("categories", <<"main">>, 0, FALSE)}

ListingDocs ==
  {Doc("listing", c, 0, TRUE) :
     c \in {<<>>, <<"card", "card">>, <<"cardNoPost">>, <<"anchor", "card">>}}
    \cup {Doc("listing", <<"card">>, 0, FALSE)}

PostDocs ==
  {Doc("post", c, m, TRUE) :
     c \in {<<>>, <<"plain", "same", "same">>}, m \in {2, 4, 9}}
    \cup {Doc("post", <<>>, 2, FALSE)}

ScraperDocs == CategoryDocs \cup ListingDocs \cup PostDocs

\* the page a document stands for
ScraperPage(doc) ==
  CASE doc.kind = "categories" ->
         [bodyText |-> InnerText(CategoryDom(doc.items)),
          dom |-> CategoryDom(doc.items), title |-> SiteTitle, loads |-> doc.loads]
    [] doc.kind = "listing" ->
         [bodyText |-> InnerText(ListingDom(doc.items)),
          dom |-> ListingDom(doc.items), title |-> SiteTitle, loads |-> doc.loads]
    [] doc.kind = "post" ->
         PageOf(PageDesc(2, doc.post, doc.items, 2, "Puppy training - NeoForum",
                         doc.loads))

\* the limit runBotCycle passes to scrapeRecentPosts
RecentPostsLimit == 5

MaxCalls == 2

(***************************************************************************)
(* State                                                                   *)
(***************************************************************************)
VARIABLES
  page,       \* descriptor of the page getPostContent runs on
  pc,         \* position inside getPostContent
  title,      \* let title
  body,       \* let body
  strategy,   \* which body strategy assigned body
  author,     \* let author
  timestamp,  \* let timestamp
  comments,   \* const comments = []
  selIdx,     \* position in the loop over commentSelectors
  candidate,  \* the body as it stood before the final gate
  result,     \* the value getPostContent returned
  listing,    \* the category page scrapeRecentPosts runs on (its items)
  listLoads,  \* whether page.content() succeeds on it
  limit,      \* the limit argument
  lpc,        \* position inside scrapeRecentPosts
  recentPosts,\* const recentPosts = []
  srcs,       \* the element each entry of recentPosts was taken from
  scans,      \* the strategies that have run, in order
  found,      \* recentPosts as it stood before the truncation
  listResult, \* the value scrapeRecentPosts returned, once lpc is "done"
  site,       \* commentOnRecentPosts: the page and form behind each post
  posts,      \* the recentPosts argument
  idx,        \* position of the for loop in posts
  bpc,        \* position inside the loop body
  postContent,\* const postContent
  commentText,\* const commentText
  nullSeen,   \* the posts for which getPostContent gave no content
  generated,  \* the posts generateComment was called for
  typed,      \* the posts a comment was typed on
  submitted,  \* the posts whose submit button was clicked
  boxText,    \* the text in the comment box of the page now shown
  apiResponse,\* what the generation API answered for commentText
  shown,      \* the post whose page the browser shows, 0 when none
  scraper,    \* a ForumScraper instance: its fields
  doc,        \* the document the page shows to the scraper
  calls,      \* the calls made on the instance, each with what it returned
  maxPostsPerSession, \* config.maxPostsPerSession
  spc,        \* the session: where the process stands
  commentCount, \* let commentCount of runBotCycle
  browser,    \* this.browser: null, an open browser or a closed one
  cycleRecent,\* recentPosts.length in the current pass of the while loop
  cycleIdx,   \* position of commentOnRecentPosts in recentPosts
  submissions,\* the comments submitted so far in the session
  waitedSince,\* delay(postInterval) has elapsed since the last submission
  errorLog,   \* the catch blocks that have logged an error so far
  isLoggedIn, \* this.isLoggedIn
  loginForm,  \* the login form: not submitted, submitted, navigation finished
  exit        \* how the process ended

detailVars ==
  <<page, pc, title, body, strategy, author, timestamp, comments, selIdx,
    candidate, result>>

listVars ==
  <<listing, listLoads, limit, lpc, recentPosts, srcs, scans, found, listResult>>

botVars ==
  <<site, posts, idx, bpc, postContent, commentText, nullSeen, generated,
    typed, submitted, boxText, apiResponse, shown>>

scraperVars == <<scraper, doc, calls>>

sessionVars ==
  <<maxPostsPerSession, spc, commentCount, browser, cycleRecent, cycleIdx,
    submissions, waitedSince, errorLog, isLoggedIn, loginForm, exit>>

vars == <<detailVars, listVars, botVars, scraperVars, sessionVars>>

\* a component that is not running
DetailIdle ==
  /\ page = PageDesc(1, 1, <<>>, 1, "", FALSE)
  /\ pc = "idle"
  /\ title = ""
  /\ body = ""
  /\ strategy = "none"
  /\ author = ""
  /\ timestamp = ""
  /\ comments = <<>>
  /\ selIdx = 1
  /\ candidate = ""
  /\ result = [pending |-> TRUE]

ListIdle ==
  /\ listing = <<>>
  /\ listLoads = FALSE
  /\ limit = 0
  /\ lpc = "idle"
  /\ recentPosts = <<>>
  /\ srcs = <<>>
  /\ scans = <<>>
  /\ found = <<>>
  /\ listResult = <<>>

BotIdle ==
  /\ site = <<>>
  /\ posts = <<>>
  /\ idx = 1
  /\ bpc = "idle"
  /\ postContent = [pending |-> TRUE]
  /\ commentText = ""
  /\ nullSeen = {}
  /\ generated = <<>>
  /\ typed = <<>>
  /\ submitted = <<>>
  /\ boxText = ""
  /\ apiResponse = NoResponse
  /\ shown = 0

ScraperIdle ==
  /\ scraper = ForumScraper
  /\ doc = Doc("post", <<>>, 2, FALSE)
  /\ calls = <<>>

SessionIdle ==
  /\ maxPostsPerSession = 1
  /\ spc = "idle"
  /\ commentCount = 0
  /\ browser = "null"
  /\ cycleRecent = 0
  /\ cycleIdx = 1
  /\ submissions = 0
  /\ waitedSince = FALSE
  /\ errorLog = {}
  /\ isLoggedIn = FALSE
  /\ loginForm = "none"
  /\ exit = "running"

NoResult == [pending |-> TRUE]

PostUrl == "https://forum.example/forum/general/post/1"

InitDetail ==
  /\ page \in DetailPages
  /\ pc = "goto"
  /\ title = ""
  /\ body = ""
  /\ strategy = "none"
  /\ author = ""
  /\ timestamp = ""
  /\ comments = <<>>
  /\ selIdx = 1
  /\ candidate = ""
  /\ result = NoResult
  /\ ListIdle
  /\ BotIdle
  /\ ScraperIdle
  /\ SessionIdle

\* page.goto, waitForTimeout; a failure is caught and null returned
Goto ==
  /\ pc = "goto"
  /\ IF page.loads
     THEN pc' = "wait" /\ result' = result
     ELSE pc' = "done" /\ result' = Null
  /\ UNCHANGED <<page, title, body, strategy, author, timestamp, comments, selIdx, candidate>>
  /\ UNCHANGED <<listVars, botVars, scraperVars, sessionVars>>

\* page.waitForFunction: times out (and null is returned) unless rendered
WaitRendered ==
  /\ pc = "wait"
  /\ IF RenderedOk(InnerText(DomOf(page)))
     THEN pc' = "titleText" /\ result' = result
     ELSE pc' = "done" /\ result' = Null
  /\ UNCHANGED <<page, title, body, strategy, author, timestamp, comments, selIdx, candidate>>
  /\ UNCHANGED <<listVars, botVars, scraperVars, sessionVars>>

TitleTextStep ==
  /\ pc = "titleText"
  /\ title' = TitleFromText(InnerText(DomOf(page)))
  /\ pc' = "titleHtml"
  /\ UNCHANGED <<page, body, strategy, author, timestamp, comments, selIdx, candidate, result>>
  /\ UNCHANGED <<listVars, botVars, scraperVars, sessionVars>>

TitleHtmlStep ==
  /\ pc = "titleHtml"
  /\ title' = IF title = "" THEN TitleFromHtml(DomOf(page)) ELSE title
  /\ pc' = "titlePage"
  /\ UNCHANGED <<page, body, strategy, author, timestamp, comments, selIdx, candidate, result>>
  /\ UNCHANGED <<listVars, botVars, scraperVars, sessionVars>>

TitlePageStep ==
  /\ pc = "titlePage"
  /\ title' = IF title = ""
              THEN TitleFromPageTitle(DomOf(page), page.docTitle)
              ELSE title
  /\ pc' = "bodyText"
  /\ UNCHANGED <<page, body, strategy, author, timestamp, comments, selIdx, candidate, result>>
  /\ UNCHANGED <<listVars, botVars, scraperVars, sessionVars>>

BodyTextStep ==
  /\ pc = "bodyText"
  /\ LET b == BodyFromText(InnerText(DomOf(page)))
     IN  body' = b.body /\ strategy' = b.strategy
  /\ pc' = "bodyHtml"
  /\ UNCHANGED <<page, title, author, timestamp, comments, selIdx, candidate, result>>
  /\ UNCHANGED <<listVars, botVars, scraperVars, sessionVars>>

BodyHtmlStep ==
  /\ pc = "bodyHtml"
  /\ LET b == BodyFromHtml(DomOf(page), [body |-> body, strategy |-> strategy])
     IN  body' = b.body /\ strategy' = b.strategy
  /\ pc' = "bodyContainers"
  /\ UNCHANGED <<page, title, author, timestamp, comments, selIdx, candidate, result>>
  /\ UNCHANGED <<listVars, botVars, scraperVars, sessionVars>>

BodyContainersStep ==
  /\ pc = "bodyContainers"
  /\ LET b == BodyFromContainers(DomOf(page), [body |-> body, strategy |-> strategy])
     IN  body' = b.body /\ strategy' = b.strategy
  /\ pc' = "bodyEmergency"
  /\ UNCHANGED <<page, title, author, timestamp, comments, selIdx, candidate, result>>
  /\ UNCHANGED <<listVars, botVars, scraperVars, sessionVars>>

BodyEmergencyStep ==
  /\ pc = "bodyEmergency"
  /\ LET b == BodyEmergency(DomOf(page), [body |-> body, strategy |-> strategy])
     IN  body' = b.body /\ strategy' = b.strategy
  /\ pc' = "gate"
  /\ UNCHANGED <<page, title, author, timestamp, comments, selIdx, candidate, result>>
  /\ UNCHANGED <<listVars, botVars, scraperVars, sessionVars>>

GateStep ==
  /\ pc = "gate"
  /\ LET b == SuspiciousGate([body |-> body, strategy |-> strategy])
     IN  body' = b.body /\ strategy' = b.strategy
  /\ candidate' = body
  /\ pc' = "checkBody"
  /\ UNCHANGED <<page, title, author, timestamp, comments, selIdx, result>>
  /\ UNCHANGED <<listVars, botVars, scraperVars, sessionVars>>

\* if (!body) return null
ReturnNotFound ==
  /\ pc = "checkBody"
  /\ BodyMissing(body)
  /\ result' = Null
  /\ pc' = "done"
  /\ UNCHANGED <<page, title, body, strategy, author, timestamp, comments, selIdx, candidate>>
  /\ UNCHANGED <<listVars, botVars, scraperVars, sessionVars>>

AuthorTimestampStep ==
  /\ pc = "checkBody"
  /\ ~BodyMissing(body)
  /\ author' = ExtractAuthor(DomOf(page))
  /\ timestamp' = ExtractTimestamp(DomOf(page))
  /\ pc' = "comments"
  /\ UNCHANGED <<page, title, body, strategy, comments, selIdx, candidate, result>>
  /\ UNCHANGED <<listVars, botVars, scraperVars, sessionVars>>

\* one iteration of the loop over commentSelectors, with its break
CommentPatternStep ==
  /\ pc = "comments"
  /\ selIdx <= Len(commentSelectors)
  /\ comments' = CollectPattern(DomOf(page), selIdx, comments)
  /\ IF Len(comments') >= MaxComments
     THEN pc' = "return" /\ selIdx' = selIdx
     ELSE pc' = pc /\ selIdx' = selIdx + 1
  /\ UNCHANGED <<page, title, body, strategy, author, timestamp, candidate, result>>
  /\ UNCHANGED <<listVars, botVars, scraperVars, sessionVars>>

CommentsDone ==
  /\ pc = "comments"
  /\ selIdx > Len(commentSelectors)
  /\ pc' = "return"
  /\ UNCHANGED <<page, title, body, strategy, author, timestamp, comments, selIdx, candidate, result>>
  /\ UNCHANGED <<listVars, botVars, scraperVars, sessionVars>>

\* the second body check and the returned record
ReturnPost ==
  /\ pc = "return"
  /\ result' = IF BodyMissing(body) THEN Null
               ELSE PostContent(title, body, author, timestamp, comments, PostUrl)
  /\ pc' = "done"
  /\ UNCHANGED <<page, title, body, strategy, author, timestamp, comments, selIdx, candidate>>
  /\ UNCHANGED <<listVars, botVars, scraperVars, sessionVars>>

NextDetail ==
  \/ Goto
  \/ WaitRendered
  \/ TitleTextStep
  \/ TitleHtmlStep
  \/ TitlePageStep
  \/ BodyTextStep
  \/ BodyHtmlStep
  \/ BodyContainersStep
  \/ BodyEmergencyStep
  \/ GateStep
  \/ ReturnNotFound
  \/ AuthorTimestampStep
  \/ CommentPatternStep
  \/ CommentsDone
  \/ ReturnPost

SpecDetail == InitDetail /\ [][NextDetail]_vars

(***************************************************************************)
(* scrapeRecentPosts(page, forumName, limit), one step per strategy        *)
(***************************************************************************)
InitListing ==
  /\ listing \in SeqsUpTo(ListingKinds, MaxListItems)
  /\ listLoads \in BOOLEAN
  /\ limit \in 0..MaxLimit
  /\ lpc = "content"
  /\ recentPosts = <<>>
  /\ srcs = <<>>
  /\ scans = <<>>
  /\ found = <<>>
  /\ listResult = <<>>
  /\ DetailIdle
  /\ BotIdle
  /\ ScraperIdle
  /\ SessionIdle

\* page.content() and cheerio.load; a throw is caught and [] returned
ListContent ==
  /\ lpc = "content"
  /\ IF listLoads
     THEN lpc' = "cards" /\ listResult' = listResult
     ELSE lpc' = "done" /\ listResult' = <<>>
  /\ UNCHANGED <<listing, listLoads, limit, recentPosts, srcs, scans, found>>
  /\ UNCHANGED <<detailVars, botVars, scraperVars, sessionVars>>

\* $("div.rounded-lg.group").each
CardsStep ==
  /\ lpc = "cards"
  /\ LET dom == ListingDom(listing)
         each == EachCard(dom, Select(dom, CardSel))
     IN  /\ recentPosts' = recentPosts \o each.posts
         /\ srcs' = srcs \o each.srcs
         /\ scans' = Append(scans, [strategy |-> "cards", count |-> Len(each.posts)])
  /\ lpc' = "afterCards"
  /\ UNCHANGED <<listing, listLoads, limit, found, listResult>>
  /\ UNCHANGED <<detailVars, botVars, scraperVars, sessionVars>>

\* if (recentPosts.length === 0) $('a').each
GlobalScanStep ==
  /\ lpc = "afterCards"
  /\ NeedsGlobalScan(recentPosts)
  /\ LET dom == ListingDom(listing)
         each == EachAnchor(dom, Select(dom, AnchorSel))
     IN  /\ recentPosts' = recentPosts \o each.posts
         /\ srcs' = srcs \o each.srcs
         /\ scans' = Append(scans, [strategy |-> "global", count |-> Len(each.posts)])
  /\ lpc' = "limit"
  /\ UNCHANGED <<listing, listLoads, limit, found, listResult>>
  /\ UNCHANGED <<detailVars, botVars, scraperVars, sessionVars>>

\* the card strategy found something: the global scan is not entered
GlobalScanSkipped ==
  /\ lpc = "afterCards"
  /\ ~NeedsGlobalScan(recentPosts)
  /\ lpc' = "limit"
  /\ UNCHANGED <<listing, listLoads, limit, recentPosts, srcs, scans, found, listResult>>
  /\ UNCHANGED <<detailVars, botVars, scraperVars, sessionVars>>

\* if (recentPosts.length > limit) recentPosts.splice(limit); return
LimitAndReturn ==
  /\ lpc = "limit"
  /\ found' = recentPosts
  /\ recentPosts' = Truncate(recentPosts, limit)
  /\ listResult' = recentPosts'
  /\ lpc' = "done"
  /\ UNCHANGED <<listing, listLoads, limit, srcs, scans>>
  /\ UNCHANGED <<detailVars, botVars, scraperVars, sessionVars>>

NextListing ==
  \/ ListContent
  \/ CardsStep
  \/ GlobalScanStep
  \/ GlobalScanSkipped
  \/ LimitAndReturn

SpecListing == InitListing /\ [][NextListing]_vars

(***************************************************************************)
(* NeoForumBot.commentOnRecentPosts(forumSlug, recentPosts)                *)
(***************************************************************************)
SiteEntries == [page : BotPages, form : Forms]

\* what getPostContent answers for each page of the site under each link
Fetched ==
  [p \in BotPages, link \in {PostLink(j) : j \in 1..MaxBotPosts} |->
     getPostContent(PageOf(p), ForumUrl \o link)]

InitBot ==
  /\ site \in UNION {[1..n -> SiteEntries] : n \in 1..MaxBotPosts}
  /\ posts = [j \in 1..Len(site) |-> Summary(j)]
  /\ idx = 1
  /\ bpc = "fetch"
  /\ postContent = NoResult
  /\ commentText = ""
  /\ nullSeen = {}
  /\ generated = <<>>
  /\ typed = <<>>
  /\ submitted = <<>>
  /\ boxText = ""
  /\ apiResponse = NoResponse
  /\ shown = 0
  /\ DetailIdle
  /\ ListIdle
  /\ ScraperIdle
  /\ SessionIdle

\* where the loop stands once it moves to post i
LoopAt(i) == IF i > Len(posts) THEN "done" ELSE "fetch"

\* the loop body is left for post i: its constants go out of scope
LeaveFor(i) ==
  /\ idx' = i
  /\ bpc' = LoopAt(i)
  /\ postContent' = NoResult
  /\ commentText' = ""
  /\ apiResponse' = NoResponse

\* const postContent = await this.scraper.getPostContent(this.page, postUrl);
\* page.goto inside it shows the post's page, with an empty comment box;
\* when the navigation fails the browser keeps its page or shows none
BotFetch ==
  /\ bpc = "fetch"
  /\ idx <= Len(posts)
  /\ postContent' = Fetched[site[idx].page, posts[idx].link]
  /\ nullSeen' = IF postContent' = Null THEN nullSeen \cup {idx}
                 ELSE IF postContent'.content = "" THEN nullSeen \cup {idx}
                 ELSE nullSeen
  /\ boxText' = ""
  /\ shown' \in (IF site[idx].page.loads THEN {idx} ELSE {shown, 0})
  /\ bpc' = "check"
  /\ UNCHANGED <<site, posts, idx, commentText, generated, typed, submitted,
                 apiResponse>>
  /\ UNCHANGED <<detailVars, listVars, scraperVars, sessionVars>>

\* if (!postContent || !postContent.content) { ...; continue; }
BotSkip ==
  /\ bpc = "check"
  /\ ShouldSkip(postContent)
  /\ LeaveFor(NextIndexAfterSkip(idx, Len(posts)))
  /\ UNCHANGED <<shown, site, posts, nullSeen, generated, typed, submitted, boxText>>
  /\ UNCHANGED <<detailVars, listVars, scraperVars, sessionVars>>

\* the title is logged (a TypeError on null lands in the catch of the loop
\* body), then generateComment answers with the API text or its fallback
BotGenerate ==
  /\ bpc = "check"
  /\ ~ShouldSkip(postContent)
  /\ IF postContent = Null
     THEN /\ LeaveFor(idx + 1)
          /\ generated' = generated
     ELSE /\ \E response \in ApiResponses :
               /\ apiResponse' = response
               /\ commentText' \in generateCommentFor(postContent, response)
          /\ generated' = Append(generated, idx)
          /\ bpc' = "form"
          /\ UNCHANGED <<idx, postContent>>
  /\ UNCHANGED <<shown, site, posts, nullSeen, typed, submitted, boxText>>
  /\ UNCHANGED <<detailVars, listVars, scraperVars, sessionVars>>

\* the two strategies that look for the comment box
BotFindBox ==
  /\ bpc = "form"
  /\ IF site[idx].form.box
     THEN bpc' = "type" /\ UNCHANGED <<idx, postContent, commentText, apiResponse>>
     ELSE LeaveFor(idx + 1)
  /\ UNCHANGED <<shown, site, posts, nullSeen, generated, typed, submitted, boxText>>
  /\ UNCHANGED <<detailVars, listVars, scraperVars, sessionVars>>

\* commentBox.focus() and type(commentText); a throw lands in the inner catch
BotType ==
  /\ bpc = "type"
  /\ \E ok \in BOOLEAN :
       IF ok
       THEN /\ typed' = Append(typed, idx)
            /\ boxText' = boxText \o commentText
            /\ bpc' = "submit"
            /\ UNCHANGED <<idx, postContent, commentText, apiResponse>>
       ELSE /\ typed' = typed
            /\ boxText' = boxText
            /\ LeaveFor(idx + 1)
  /\ UNCHANGED <<shown, site, posts, nullSeen, generated, submitted>>
  /\ UNCHANGED <<detailVars, listVars, scraperVars, sessionVars>>

\* the two passes that look for the submit button
BotFindSubmit ==
  /\ bpc = "submit"
  /\ IF FindSubmitButton(site[idx].form.buttons) # 0
     THEN bpc' = "click" /\ UNCHANGED <<idx, postContent, commentText, apiResponse>>
     ELSE LeaveFor(idx + 1)
  /\ UNCHANGED <<shown, site, posts, nullSeen, generated, typed, submitted, boxText>>
  /\ UNCHANGED <<detailVars, listVars, scraperVars, sessionVars>>

\* submitButton.click(); a throw is caught and logged
BotClick ==
  /\ bpc = "click"
  /\ \E ok \in BOOLEAN :
       submitted' = IF ok THEN Append(submitted, idx) ELSE submitted
  /\ LeaveFor(idx + 1)
  /\ UNCHANGED <<shown, site, posts, nullSeen, generated, typed, boxText>>
  /\ UNCHANGED <<detailVars, listVars, scraperVars, sessionVars>>

NextBot ==
  \/ BotFetch
  \/ BotSkip
  \/ BotGenerate
  \/ BotFindBox
  \/ BotType
  \/ BotFindSubmit
  \/ BotClick

SpecBot == InitBot /\ [][NextBot]_vars

(***************************************************************************)
(* A ForumScraper instance and the calls a client makes on it, all on the  *)
(* document the page shows                                                 *)
(***************************************************************************)
InitScraper ==
  /\ scraper = ForumScraper
  /\ doc \in ScraperDocs
  /\ calls = <<>>
  /\ DetailIdle
  /\ ListIdle
  /\ BotIdle
  /\ SessionIdle

\* a method that keeps what it was last asked in a field of the instance
InstanceAfterCaching(self, method) == [self EXCEPT !.defaultCategories = <<method>>]

\* the fields of the instance once a method has returned: no method of
\* ForumScraper assigns to this
InstanceAfter(self, method) == self

Call(method, out) ==
  /\ Len(calls) < MaxCalls
  /\ calls' = Append(calls, [method |-> method, out |-> out])
  /\ scraper' = InstanceAfter(scraper, method)
  /\ doc' = doc
  /\ UNCHANGED <<detailVars, listVars, botVars, sessionVars>>

CallScrapeCategories ==
  Call("scrapeCategories", scrapeCategories(scraper, ScraperPage(doc)))

CallScrapeRecentPosts ==
  Call("scrapeRecentPosts", scrapeRecentPostsOf(ScraperPage(doc), RecentPostsLimit))

CallScrapeForumStats ==
  Call("scrapeForumStats", scrapeForumStats(scraper, ScraperPage(doc)))

CallGetPostContent ==
  Call("getPostContent", getPostContentOf(ScraperPage(doc), PostUrl))

NextScraper ==
  \/ CallScrapeCategories
  \/ CallScrapeRecentPosts
  \/ CallScrapeForumStats
  \/ CallGetPostContent

SpecScraper == InitScraper /\ [][NextScraper]_vars

(***************************************************************************)
(* A bot session: main (index.js), NeoForumBot.initialize, start, login,   *)
(* runBotCycle and cleanup, and the SIGINT and SIGTERM handlers.  One step *)
(* per await.  commentOnRecentPosts is taken one post at a time, each post *)
(* ending with its comment submitted or not.                               *)
(***************************************************************************)
MaxSessionPosts == 2

InitSession ==
  /\ maxPostsPerSession \in 1..MaxSessionPosts
  /\ spc = "initialize"
  /\ commentCount = 0
  /\ browser = "null"
  /\ cycleRecent = 0
  /\ cycleIdx = 1
  /\ submissions = 0
  /\ waitedSince = FALSE
  /\ errorLog = {}
  /\ isLoggedIn = FALSE
  /\ loginForm = "none"
  /\ exit = "running"
  /\ DetailIdle
  /\ ListIdle
  /\ BotIdle
  /\ ScraperIdle

\* process.exit(code): the process ends where it stands
ProcessExit(code) ==
  /\ spc' = "exited"
  /\ exit' = code
  /\ UNCHANGED <<errorLog, isLoggedIn, loginForm, maxPostsPerSession, commentCount, browser, cycleRecent,
                 cycleIdx, submissions, waitedSince>>

\* cleanup(): if (this.browser) await this.browser.close()
cleanup(b) == IF b # "null" THEN "closed" ELSE b

\* bot.initialize() under main's try/catch: puppeteer.launch, then newPage
\* and setUserAgent; an error in either ends the process with exit(1)
Initialize ==
  /\ spc = "initialize"
  /\ \E outcome \in {"ok", "launchFails", "newPageFails"} :
       /\ browser' = IF outcome = "launchFails" THEN browser ELSE "open"
       /\ IF outcome = "ok"
          THEN spc' = "login" /\ exit' = exit
          ELSE spc' = "exited" /\ exit' = "exit1"
  /\ UNCHANGED <<errorLog, isLoggedIn, loginForm, maxPostsPerSession, commentCount, cycleRecent, cycleIdx,
                 submissions, waitedSince>>
  /\ UNCHANGED <<detailVars, listVars, botVars, scraperVars>>

\* start() goes on to runBotCycle although login() threw
AfterLoginIgnoringError(threw) == "while"

\* start(): await this.login() inside try; a throw lands in the catch
AfterLogin(threw) == IF threw THEN "startCatch" ELSE "while"

\* login() up to the submission: page.goto, waitForSelector, the two form
\* fields and the typing; it throws when the page, the form or a field is
\* missing or the typing fails
LoginFill ==
  /\ spc = "login"
  /\ \E outcome \in {"filled", "gotoFails", "noForm", "noFields", "typeFails"} :
       spc' = IF outcome = "filled" THEN "loginSubmit" ELSE AfterLogin(TRUE)
  /\ UNCHANGED <<errorLog, isLoggedIn, loginForm, maxPostsPerSession,
                 commentCount, browser, cycleRecent, cycleIdx, submissions,
                 waitedSince, exit>>
  /\ UNCHANGED <<detailVars, listVars, botVars, scraperVars>>

\* the submit button: Promise.all([waitForNavigation(), click()]), then
\* this.isLoggedIn = true; it throws when there is no button or the
\* navigation does not finish
LoginSubmit ==
  /\ spc = "loginSubmit"
  /\ \E outcome \in {"navigated", "noButton", "navigationFails"} :
       /\ loginForm' = CASE outcome = "navigated" -> "navigated"
                         [] outcome = "navigationFails" -> "submitted"
                         [] OTHER -> loginForm
       /\ isLoggedIn' = IF outcome = "navigated" THEN TRUE ELSE isLoggedIn
       /\ spc' = AfterLogin(outcome # "navigated")
  /\ UNCHANGED <<errorLog, maxPostsPerSession, commentCount, browser,
                 cycleRecent, cycleIdx, submissions, waitedSince, exit>>
  /\ UNCHANGED <<detailVars, listVars, botVars, scraperVars>>

\* while (commentCount < this.config.maxPostsPerSession)
WhileTest ==
  /\ spc = "while"
  /\ spc' = IF commentCount < maxPostsPerSession THEN "iteration" ELSE "cycleCleanup"
  /\ UNCHANGED <<errorLog, isLoggedIn, loginForm, maxPostsPerSession, commentCount, browser, cycleRecent,
                 cycleIdx, submissions, waitedSince, exit>>
  /\ UNCHANGED <<detailVars, listVars, botVars, scraperVars>>

\* the posts a category page of the forum holds at most
MaxCategoryPosts == 2

\* the categories, a random one of them, page.goto and
\* scrapeRecentPosts(page, slug, 5), which returns the posts of the page up
\* to its limit; the forum decides how many posts the page holds and
\* whether the navigation fails
Iteration ==
  /\ spc = "iteration"
  /\ \/ \E onPage \in 0..MaxCategoryPosts :
          /\ cycleRecent' = Min({onPage, RecentPostsLimit})
          /\ spc' = IF cycleRecent' > 0 THEN "commenting" ELSE "afterCycle"
          /\ errorLog' = errorLog
     \/ /\ spc' = "retryDelay"
        /\ cycleRecent' = cycleRecent
        /\ errorLog' = errorLog \cup {"Error in comment cycle:"}
  /\ cycleIdx' = 1
  /\ UNCHANGED <<isLoggedIn, loginForm, maxPostsPerSession, commentCount, browser, submissions,
                 waitedSince, exit>>
  /\ UNCHANGED <<detailVars, listVars, botVars, scraperVars>>

\* where runBotCycle stands once the loop body has ended for post i of n
AfterPost(i, n) == IF i < n THEN "commenting" ELSE "afterCycle"

\* the per-post catch rethrows: the error reaches the catch of runBotCycle
AfterPostCatchRethrown(i, n) == "retryDelay"

\* the per-post catch only logs: the loop body has ended for post i
AfterPostCatch(i, n) == AfterPost(i, n)

\* the for loop moves on; after the last post commentOnRecentPosts returns
\* and runBotCycle does commentCount++
LoopOn(where) ==
  /\ spc' = where
  /\ cycleIdx' = IF where = "commenting" THEN cycleIdx + 1 ELSE cycleIdx
  /\ commentCount' = IF where = "afterCycle" THEN commentCount + 1 ELSE commentCount

\* one pass of the for loop of commentOnRecentPosts: the post gets a
\* comment, is skipped, or an await of the loop body throws
CommentOnPost ==
  /\ spc = "commenting"
  /\ \E outcome \in {"submitted", "skipped", "error"} :
       /\ submissions' = IF outcome = "submitted" THEN submissions + 1 ELSE submissions
       /\ waitedSince' = IF outcome = "submitted" THEN FALSE ELSE waitedSince
       /\ IF outcome = "error"
          THEN spc' = "postCatch" /\ UNCHANGED <<cycleIdx, commentCount>>
          ELSE LoopOn(AfterPost(cycleIdx, cycleRecent))
  /\ UNCHANGED <<errorLog, isLoggedIn, loginForm, maxPostsPerSession, browser, cycleRecent, exit>>
  /\ UNCHANGED <<detailVars, listVars, botVars, scraperVars>>

\* catch (err) { logger.error('Error commenting on post:', err); }
PostCatch ==
  /\ spc = "postCatch"
  /\ errorLog' = errorLog \cup {"Error commenting on post:"}
  /\ LoopOn(AfterPostCatch(cycleIdx, cycleRecent))
  /\ UNCHANGED <<isLoggedIn, loginForm, maxPostsPerSession, browser, cycleRecent, submissions,
                 waitedSince, exit>>
  /\ UNCHANGED <<detailVars, listVars, botVars, scraperVars>>

\* if (commentCount < maxPostsPerSession) await this.delay(postInterval)
AfterCycle ==
  /\ spc = "afterCycle"
  /\ spc' = IF commentCount < maxPostsPerSession THEN "intervalDelay" ELSE "while"
  /\ UNCHANGED <<errorLog, isLoggedIn, loginForm, maxPostsPerSession, commentCount, browser, cycleRecent,
                 cycleIdx, submissions, waitedSince, exit>>
  /\ UNCHANGED <<detailVars, listVars, botVars, scraperVars>>

\* the timer of delay(postInterval * 60 * 1000) fires
IntervalElapsed ==
  /\ spc = "intervalDelay"
  /\ waitedSince' = TRUE
  /\ spc' = "while"
  /\ UNCHANGED <<errorLog, isLoggedIn, loginForm, maxPostsPerSession, commentCount, browser, cycleRecent,
                 cycleIdx, submissions, exit>>
  /\ UNCHANGED <<detailVars, listVars, botVars, scraperVars>>

\* the catch of the loop body: the timer of delay(30000) fires
RetryElapsed ==
  /\ spc = "retryDelay"
  /\ spc' = "while"
  /\ UNCHANGED <<errorLog, isLoggedIn, loginForm, maxPostsPerSession, commentCount, browser, cycleRecent,
                 cycleIdx, submissions, waitedSince, exit>>
  /\ UNCHANGED <<detailVars, listVars, botVars, scraperVars>>

\* the end of runBotCycle: await this.cleanup()
CycleCleanup ==
  /\ spc = "cycleCleanup"
  /\ browser' = cleanup(browser)
  /\ spc' = "returned"
  /\ UNCHANGED <<errorLog, isLoggedIn, loginForm, maxPostsPerSession, commentCount, cycleRecent, cycleIdx,
                 submissions, waitedSince, exit>>
  /\ UNCHANGED <<detailVars, listVars, botVars, scraperVars>>

\* the catch of start(): await this.cleanup()
StartCatch ==
  /\ spc = "startCatch"
  /\ browser' = cleanup(browser)
  /\ spc' = "returned"
  /\ UNCHANGED <<errorLog, isLoggedIn, loginForm, maxPostsPerSession, commentCount, cycleRecent, cycleIdx,
                 submissions, waitedSince, exit>>
  /\ UNCHANGED <<detailVars, listVars, botVars, scraperVars>>

\* start() and main() have returned and nothing is pending: the process ends
MainReturns ==
  /\ spc = "returned"
  /\ ProcessExit("returned")
  /\ UNCHANGED <<detailVars, listVars, botVars, scraperVars>>

\* process.on('SIGINT', ...): log and process.exit(0)
OnSIGINT ==
  /\ spc # "exited"
  /\ ProcessExit("SIGINT")
  /\ UNCHANGED <<detailVars, listVars, botVars, scraperVars>>

\* process.on('SIGTERM', ...): log and process.exit(0)
OnSIGTERM ==
  /\ spc # "exited"
  /\ ProcessExit("SIGTERM")
  /\ UNCHANGED <<detailVars, listVars, botVars, scraperVars>>

\* the steps of the program itself
SessionStep ==
  \/ Initialize
  \/ LoginFill
  \/ LoginSubmit
  \/ WhileTest
  \/ Iteration
  \/ CommentOnPost
  \/ PostCatch
  \/ AfterCycle
  \/ IntervalElapsed
  \/ RetryElapsed
  \/ CycleCleanup
  \/ StartCatch
  \/ MainReturns

NextSession ==
  \/ SessionStep
  \/ OnSIGINT
  \/ OnSIGTERM

SpecSession == InitSession /\ [][NextSession]_vars

\* the event loop runs every continuation and timer that is ready; nothing
\* obliges a signal to arrive
SpecSessionFair == SpecSession /\ WF_vars(SessionStep)


(***************************************************************************)
(* Properties of getPostContent, checked under SpecDetail                  *)
(***************************************************************************)
Returned == pc = "done" /\ result # NoResult

ReturnedRecord == Returned /\ result # Null

\* C1: getPostContent returns either null or a record whose content is a
\* non-empty string; no record with empty content is ever returned.
C1_ContentNeverEmpty ==
  Returned => (result = Null \/ result.content # "")

\* C1 witness: a page on which every body strategy was tried and a record
\* was returned
C1_Witness ==
  ReturnedRecord /\ candidate # "" /\ result.content = candidate

\* the suspicious-content signatures of the claim, in lower case
SignaturesLower ==
  {"neoforum", "community based around", "furry best friends",
   "forum description", "welcome to", "$undefined", "__classname_",
   "dangerouslysetinnerhtml", "$l", "precedence", "crossorigin", "nonce"}

MatchesSignature(text) ==
  LET low == toLowerCase(text)
  IN  \E sig \in SignaturesLower : includes(low, sig)

\* C3: the content of every returned record contains none of the
\* suspicious-content signatures, compared case-insensitively, and a body
\* that matches one makes the call return null.
C3_NoSuspiciousContent ==
  /\ ReturnedRecord => ~MatchesSignature(result.content)
  /\ (Returned /\ MatchesSignature(candidate)) => result = Null

\* C3 witness: a body found by a strategy holds a signature in mixed case
\* and the call has returned
C3_Witness ==
  /\ Returned
  /\ includes(candidate, "crossOrigin")
  /\ result = Null

ChromeOnly(d) == d.post = 1 /\ d.comments = <<>>

\* C5: for a page whose text is forum chrome only (navigation, footer
\* boilerplate) getPostContent returns null, never a record.
C5_ChromeOnlyNotFound ==
  (Returned /\ ChromeOnly(page)) => result = Null

\* C6: the comments of a returned record contain no two equal strings.
C6_CommentsDistinct ==
  ReturnedRecord =>
    \A i, j \in 1..Len(result.comments) :
      result.comments[i] = result.comments[j] => i = j

\* C6 witness: the page shows the same comment text in two elements, and several
\* selector patterns matched it, yet a record with comments was returned
C6_Witness ==
  /\ ReturnedRecord
  /\ Cardinality({i \in 1..Len(page.comments) : page.comments[i] = "same"}) >= 2
  /\ arrayIncludes(result.comments, SameComment)

\* C7: the comments of a returned record are the first five collected over
\* all selector patterns together, so never more than five.
C7_CommentsCapped ==
  ReturnedRecord =>
    /\ Len(result.comments) <= 5
    /\ Len(result.comments) = (IF Len(comments) < 5 THEN Len(comments) ELSE 5)
    /\ \A i \in 1..Len(result.comments) : result.comments[i] = comments[i]

\* C7 witness: more than five comments were collected before the record was
\* built
C7_Witness == ReturnedRecord /\ Len(comments) > 5

(***************************************************************************)
(* Claims about scrapeRecentPosts, checked under SpecListing               *)
(***************************************************************************)
ListingReturned == lpc = "done"

Ascending(seq) == \A i, j \in 1..Len(seq) : i < j => seq[i] < seq[j]

\* C8: for every document and every limit >= 0, scrapeRecentPosts returns
\* exactly the first min(limit, n) of the n summaries it found, in document
\* order; the returned sequence is never longer than limit.
C8_FirstLimitInOrder ==
  ListingReturned =>
    /\ Len(listResult) = Min({limit, Len(found)})
    /\ \A k \in 1..Len(listResult) : listResult[k] = found[k]
    /\ Len(listResult) <= limit
    /\ Len(srcs) = Len(found)
    /\ Ascending(srcs)

\* more summaries were found than the limit allows, and the first ones
\* were returned
C8_Witness ==
  /\ ListingReturned
  /\ limit >= 1
  /\ Len(found) > limit
  /\ Len(listResult) = limit

\* the anchors the claim expects a summary for: a post-shaped href and a
\* non-empty title, the title being the text of the nested heading when the
\* anchor has one and the text of the anchor otherwise
ExpectedAnchors(dom) ==
  SelectSeq([i \in 1..Len(dom) |-> i],
    LAMBDA i :
      /\ dom[i].tag = "a"
      /\ includes(dom[i].href, "/forum/")
      /\ includes(dom[i].href, "/post/")
      /\ LET inside == {h \in 1..Len(dom) : dom[h].tag = "h3" /\ i \in Ancestors(dom, h)}
         IN  IF inside = {}
             THEN trim(ElementText(dom, i)) # ""
             ELSE trim(TextOfAll(dom, SelectSeq([h \in 1..Len(dom) |-> h],
                                                LAMBDA h : h \in inside))) # "")

StrategiesRun == {scans[k].strategy : k \in 1..Len(scans)}

\* C9: the global anchor scan runs if and only if the card strategy produced
\* zero summaries; when it runs, the result before truncation holds one
\* summary, in document order, for every anchor with a post-shaped href and
\* a non-empty title (from its nested heading or its anchor text).
C9_GlobalScanIffNoCards ==
  lpc \in {"limit", "done"} /\ listLoads =>
    /\ scans[1].strategy = "cards"
    /\ ("global" \in StrategiesRun) <=> (scans[1].count = 0)
    /\ "global" \in StrategiesRun =>
         LET dom == ListingDom(listing)
             all == IF lpc = "limit" THEN recentPosts ELSE found
         IN  /\ srcs = ExpectedAnchors(dom)
             /\ Len(all) = Len(srcs)
             /\ \A k \in 1..Len(all) : all[k].link = dom[srcs[k]].href

\* the card strategy came up empty on a page that has cards, and the global
\* scan took some anchors and left others
C9_Witness ==
  /\ lpc = "limit"
  /\ "global" \in StrategiesRun
  /\ \E k \in 1..Len(listing) : listing[k] = "cardNoHeading"
  /\ \E k \in 1..Len(listing) : listing[k] = "anchorPostOnly"
  /\ Len(recentPosts) >= 2

\* C10: every summary returned by scrapeRecentPosts has a non-empty title and
\* a non-empty link; a card or anchor with either one empty gives no summary,
\* under the card strategy and under the global scan.
C10_TitleAndLinkNonEmpty ==
  /\ \A k \in 1..Len(recentPosts) :
       recentPosts[k].title # "" /\ recentPosts[k].link # ""
  /\ ListingReturned =>
       \A k \in 1..Len(listResult) :
         listResult[k].title # "" /\ listResult[k].link # ""

\* a page with an anchor whose title is empty, and something returned
C10_Witness ==
  /\ ListingReturned
  /\ Len(listResult) >= 1
  /\ \E k \in 1..Len(listing) :
       listing[k] \in {"anchorEmpty", "anchorEmptyHeading", "cardNoHeading"}

(***************************************************************************)
(* Claims about commentOnRecentPosts, checked under SpecBot                *)
(***************************************************************************)
NoContent(content) == IF content = Null THEN TRUE ELSE content.content = ""

\* the posts a comment was generated, typed or submitted for
Touched ==
  {generated[k] : k \in 1..Len(generated)}
    \cup {typed[k] : k \in 1..Len(typed)}
    \cup {submitted[k] : k \in 1..Len(submitted)}

\* C2: in commentOnRecentPosts a post whose getPostContent result is null or
\* has empty content is skipped: generateComment is not called for it,
\* nothing is typed or submitted for it, and the loop goes on with the next
\* post.
C2_NoContentSkipped ==
  [][ /\ (bpc = "check" /\ NoContent(postContent)) =>
           /\ idx' = idx + 1
           /\ bpc' = (IF idx' > Len(posts) THEN "done" ELSE "fetch")
           /\ generated' = generated
           /\ typed' = typed
           /\ submitted' = submitted
      /\ (nullSeen \cap Touched)' = {} ]_vars

\* the first post had no content, and the bot went on to submit a comment on
\* the second
C2_Witness ==
  /\ bpc = "done"
  /\ 1 \in nullSeen
  /\ generated = <<2>>
  /\ typed = <<2>>
  /\ submitted = <<2>>

(***************************************************************************)
(* Claims about the ForumScraper methods as a client calls them            *)
(***************************************************************************)
CallsOf(method) == {k \in 1..Len(calls) : calls[k].method = method}

\* C11: scrapeRecentPosts, getPostContent, scrapeCategories and
\* scrapeForumStats never let an exception reach the caller: every call
\* returns, and with a well-defined value whatever the document holds.  A
\* document that fails to load gives the default categories, an empty list
\* of posts, null and the empty stats object; a loaded document gives a
\* non-empty category list, at most limit summaries, null or a post record
\* with content, and four numbers.
C11_NeverThrows ==
  /\ \A k \in 1..Len(calls) : calls[k].out.type = "return"
  /\ \A k \in CallsOf("scrapeCategories") :
       /\ Len(calls[k].out.value) > 0
       /\ ~doc.loads => calls[k].out.value = defaultCategories
  /\ \A k \in CallsOf("scrapeRecentPosts") :
       /\ Len(calls[k].out.value) <= RecentPostsLimit
       /\ ~doc.loads => calls[k].out.value = <<>>
  /\ \A k \in CallsOf("getPostContent") :
       /\ calls[k].out.value # Null => calls[k].out.value.content # ""
       /\ ~doc.loads => calls[k].out.value = Null
  /\ \A k \in CallsOf("scrapeForumStats") :
       IF doc.loads
       THEN DOMAIN calls[k].out.value =
              {"totalPosts", "totalUsers", "onlineUsers", "totalTopics"}
       ELSE calls[k].out.value = EmptyStats

\* a document that failed to load and one with nothing to find have both
\* been scraped for categories, and the defaults came back
C11_Witness ==
  /\ CallsOf("scrapeCategories") # {}
  /\ CallsOf("getPostContent") # {}
  /\ ~doc.loads \/ doc.items = <<>>
  /\ \A k \in CallsOf("scrapeCategories") : calls[k].out.value = defaultCategories

\* C12: when the document cannot be obtained, scrapeRecentPosts and
\* getPostContent end with an error result that the caller can tell from
\* the ordinary outcomes: not with the empty list that means no posts were
\* found, and not with the null that means the post was not found.
C12_AcquisitionFailureDistinct ==
  ~doc.loads =>
    /\ \A k \in CallsOf("scrapeRecentPosts") : calls[k].out # Return(<<>>)
    /\ \A k \in CallsOf("getPostContent") : calls[k].out # Return(Null)

StructuralTitle(dom) == TitleFromHtml(dom)

StructuralBody(dom) ==
  BodyFromContainers(dom, BodyFromHtml(dom, [body |-> "", strategy |-> "none"]))

\* C14: for the title and for the body the structural (HTML selector)
\* strategies come first, the textual strategy second and the page title
\* last: whenever a structural strategy has a valid candidate, the returned
\* field is that candidate, and the rendered text supplies the field only
\* when no structural candidate is valid.
C14_StructuralFirst ==
  ReturnedRecord =>
    LET dom == DomOf(page)
        text == InnerText(dom)
    IN  /\ StructuralTitle(dom) # "" => result.title = StructuralTitle(dom)
        /\ StructuralBody(dom).body # "" => result.content = StructuralBody(dom).body
        /\ StructuralTitle(dom) = "" /\ TitleFromText(text) # ""
             => result.title = TitleFromText(text)

\* String.prototype.split with a separator of any length
RECURSIVE splitOn(_, _)
splitOn(s, sep) ==
  LET at == IndexFrom(s, sep, 1)
  IN  IF at = 0 THEN <<s>>
      ELSE <<SubSeq(s, 1, at - 1)>> \o splitOn(SubSeq(s, at + Len(sep), Len(s)), sep)

\* the page title without its last ' - ' segment
AllButLastSegment(pageTitle) ==
  LET parts == splitOn(pageTitle, " - ")
  IN  trim(join(SubSeq(parts, 1, Len(parts) - 1), " - "))

\* the title was left to the page-title strategy, which supplied it
TitleFromPageTitleTaken ==
  /\ ReturnedRecord
  /\ TitleFromText(InnerText(DomOf(page))) = ""
  /\ TitleFromHtml(DomOf(page)) = ""
  /\ result.title # ""

\* C15: when the title comes from the page-title strategy and the page
\* title contains ' - ', the title is the page title with only its last
\* segment, the site name, removed; and the page title is used only when
\* neither the rendered text nor the HTML selectors gave a title.
C15_PageTitleDropsSiteNameOnly ==
  /\ TitleFromPageTitleTaken /\ includes(page.docTitle, " - ")
       => result.title = AllButLastSegment(page.docTitle)
  /\ ReturnedRecord /\ result.title # ""
       /\ result.title = TitleFromPageTitle(DomOf(page), page.docTitle)
       /\ result.title \notin {TitleFromText(InnerText(DomOf(page))),
                               TitleFromHtml(DomOf(page))}
       => TitleFromPageTitleTaken

(***************************************************************************)
(* Claims about a bot session                                              *)
(***************************************************************************)
\* C16: over a whole session the bot never submits more comments than
\* maxPostsPerSession.
C16_SubmissionsCapped == submissions <= maxPostsPerSession

\* C17: no two comment submissions follow each other without a
\* delay(postInterval) between them: a submission that is not the first of
\* the session happens only after the interval has elapsed since the one
\* before it.
C17_IntervalBetweenSubmissions ==
  [][(submissions' > submissions /\ submissions > 0) => waitedSince]_vars

Signalled == exit \in {"SIGINT", "SIGTERM"}

\* C18: every session that start() begins completes: the loop of
\* runBotCycle is left, cleanup runs and start() returns, whatever the
\* forum does (unless a signal ends the process first).
C18_SessionCompletes == (spc = "login") ~> (spc = "returned" \/ Signalled)

\* C19: whenever the process has ended after initialize() launched the
\* browser, be it by the session completing, by a failed login, or by
\* SIGINT or SIGTERM, the browser has been closed.
C19_BrowserClosedAtExit ==
  (spc = "exited" /\ browser # "null" /\ (exit = "returned" \/ Signalled))
    => browser = "closed"

\* generateComment has returned for the post at hand
CommentGenerated == apiResponse # NoResponse

\* C20: generateComment always returns a non-empty comment, and when the
\* API call fails or its response has no content the comment is one of the
\* fallback templates filled with the post title, or with 'the topic' when
\* the title is empty.
C20_CommentNeverEmpty ==
  CommentGenerated =>
    /\ commentText # ""
    /\ apiResponse.kind = "error" \/ apiResponse.content = ""
         => commentText \in generateFallbackComment(
                              IF postContent.title # "" THEN postContent.title
                              ELSE "the topic")

(***************************************************************************)
(* Further claims about getPostContent, checked under SpecDetail           *)
(***************************************************************************)
\* the page shows a post with a title heading, a body paragraph, an author
\* and existing comments
HasPostParts(dom) ==
  /\ Len(Select(dom, <<<<SelNot("h1", {}, {"site-title", "forum-title"})>>>>)) > 0
  /\ Len(Select(dom, <<<<SelNot("p", {}, {"forum-description"})>>>>)) = 1
  /\ Len(Select(dom, <<<<Sel(AnyTag, {"username"})>>>>)) > 0
  /\ Len(Select(dom, <<<<Sel(AnyTag, {"comment"})>>>>)) > 0

\* the text of the post's body paragraph
PostBodyOf(dom) ==
  trim(TextOfFirst(dom, <<<<SelNot("p", {}, {"forum-description"})>>>>))

\* C21: for a detail page whose rendered text has a title line, one post
\* body, an author and comment lines, the returned content equals the
\* post's body text only: no title, author or comment line of the page is
\* part of content.
C21_ContentIsBodyOnly ==
  (ReturnedRecord /\ HasPostParts(DomOf(page))) =>
    LET dom == DomOf(page)
        commentEls == Select(dom, <<<<Sel(AnyTag, {"comment"})>>>>)
    IN  /\ result.content = PostBodyOf(dom)
        /\ \A k \in 1..Len(commentEls) :
             ~includes(result.content, trim(ElementText(dom, commentEls[k])))
        /\ ~includes(result.content, TitleFromHtml(dom))
        /\ ~includes(result.content, ExtractAuthor(dom))

\* the block-level denylist: a known boilerplate phrase occurs in the text
HasBoilerplate(textContent) ==
  includesAny(toLowerCase(textContent), HtmlDenylistLower)

\* the element text the post-container fallback started from, when it
\* supplied the body
ContainerCandidates(dom, content) ==
  {k \in 1..Len(postContainers) :
     /\ Len(Select(dom, postContainers[k])) > 0
     /\ FilterContainerText(trim(TextOfAll(dom, Select(dom, postContainers[k]))))
          = content}

\* C22: a candidate body that contains a known boilerplate phrase is
\* rejected as a whole even when its length and word count pass the shape
\* checks: under every body strategy, the post-container and emergency
\* fallbacks included, no part of such a candidate is returned as content.
C22_BoilerplateRejectsWhole ==
  ReturnedRecord =>
    LET dom == DomOf(page)
    IN  /\ strategy = "html" => ~HasBoilerplate(result.content)
        /\ strategy = "container" =>
             \A k \in ContainerCandidates(dom, result.content) :
               ~HasBoilerplate(trim(TextOfAll(dom, Select(dom, postContainers[k]))))
        /\ strategy = "emergency" => ~HasBoilerplate(BodyText(dom))

\* the trimmed text of every element of the document
ElementTexts(dom) == {trim(ElementText(dom, i)) : i \in 1..Len(dom)}

\* C23: every entry of the returned comments is the trimmed text of an
\* element, with a length within the bounds 10 to 500 characters; an element
\* text outside the bounds is never collected.
C23_CommentsWithinBounds ==
  ReturnedRecord =>
    LET texts == ElementTexts(DomOf(page))
    IN  /\ \A k \in 1..Len(result.comments) :
             /\ result.comments[k] \in texts
             /\ Len(result.comments[k]) >= MinCommentChars
             /\ Len(result.comments[k]) <= MaxCommentChars
        /\ \A t \in texts :
             (Len(t) < MinCommentChars \/ Len(t) > MaxCommentChars)
               => ~arrayIncludes(result.comments, t)

\* C23 witness: the page shows a comment too short and one too long next to
\* one within the bounds, and a record with comments was returned
C23_Witness ==
  /\ ReturnedRecord
  /\ arrayIncludes(page.comments, "short")
  /\ arrayIncludes(page.comments, "long")
  /\ Len(result.comments) > 0

\* the title test of one line as the claim states it: 2 to 15 words, more
\* than 10 and under 100 characters, none of the non-title vocabulary
StatedTitleLineOk(line) ==
  /\ WordCount(line) >= 2
  /\ WordCount(line) <= 15
  /\ Len(line) > 10
  /\ Len(line) < 100
  /\ ~includesAny(toLowerCase(line), TitleLineDenylist)
  /\ ~MatchesDateLine(line)

\* the first of the scanned lines that passes the stated test
StatedTitleFromText(bodyText) ==
  LET textLines == mapTrim(split(bodyText, "\n"))
      n == Min({Len(textLines), TitleScanLimit})
      ok == {i \in 1..n : StatedTitleLineOk(textLines[i])}
  IN  IF ok = {} THEN "" ELSE textLines[Min(ok)]

\* the rendered-text title strategy has just run
TitleTextDone == pc = "titleHtml"

\* C24: the rendered-text title strategy accepts a line as the title exactly
\* when it has 2 to 15 words, more than 10 and under 100 characters and none
\* of the non-title vocabulary; a line with exactly 2 words is accepted and
\* a line of one word is rejected.
C24_TitleLineBounds ==
  TitleTextDone => title = StatedTitleFromText(InnerText(DomOf(page)))

\* the structural and navigational terms the claim names
StatedLineDenylist ==
  <<"neoforum", "login", "register", "search", "home", "explore",
    "dashboard", "privacy", "terms", "score", "/">>

\* the framework-hydration artifacts the claim names
StatedArtifacts == <<"$", "$undefined", "__className_", "dangerouslySetInnerHTML">>

\* the line classifier as the claim states it
StatedLineOk(line) ==
  /\ Len(line) > 20
  /\ ~includesAny(toLowerCase(line), StatedLineDenylist)
  /\ ~includesAny(line, StatedArtifacts)

\* text is made of lines of L joined by single spaces
RECURSIVE MadeOfLines(_, _)
MadeOfLines(text, L) ==
  \/ text \in L
  \/ \E l \in L :
       /\ Len(text) > Len(l) + 1
       /\ SubSeq(text, 1, Len(l) + 1) = l \o " "
       /\ MadeOfLines(SubSeq(text, Len(l) + 2, Len(text)), L)

\* the trimmed lines of the rendered text
RenderedLines(d) ==
  LET textLines == mapTrim(split(InnerText(DomOf(d)), "\n"))
  IN  {textLines[i] : i \in 1..Len(textLines)}

\* the rendered-text body strategy has just run and supplied a body
TextBodyFound ==
  pc = "bodyHtml" /\ strategy \in {"text", "textFallback"} /\ body # ""

\* C25: every rendered-text line that contributes to the text-derived body
\* passed the line classifier: it is longer than 20 characters, contains no
\* denylisted structural or navigational term in any letter case, and
\* contains no framework-hydration artifact.
C25_BodyLinesClassified ==
  TextBodyFound =>
    MadeOfLines(body, {l \in RenderedLines(page) : StatedLineOk(l)})

\* C25 witness: the text-derived body was found on a page that also shows a
\* navigation line and a line with a hydration artifact, both long enough
C25_Witness ==
  /\ TextBodyFound
  /\ \E l \in RenderedLines(page) :
       Len(l) > 20 /\ includesAny(toLowerCase(l), StatedLineDenylist)
  /\ \E l \in RenderedLines(page) :
       Len(l) > 20 /\ includesAny(l, StatedArtifacts)

\* the selectors getPostContent tries for the author and for the timestamp
DetailAuthorSelectors ==
  << <<Sel(AnyTag, {"post-author"})>>, <<Sel(AnyTag, {"username"})>>,
     <<SelClassSub("author")>>, <<SelClassSub("user")>>,
     <<Sel(AnyTag, {"user-info"})>> >>

DetailTimestampSelectors ==
  << <<Sel(AnyTag, {"post-time"})>>, <<Sel(AnyTag, {"timestamp"})>>,
     <<SelClassSub("date")>>, <<SelAttr("data-time")>> >>

\* every title strategy fails on the page
NoTitleFound(d) ==
  /\ TitleFromText(InnerText(DomOf(d))) = ""
  /\ TitleFromHtml(DomOf(d)) = ""
  /\ TitleFromPageTitle(DomOf(d), d.docTitle) = ""

\* C26: when the rendered-text, HTML-selector and page-title strategies all
\* fail, the title of the returned record is the empty string, never a
\* guessed or default value; author and timestamp are empty when none of
\* their selectors match; and an empty title, author or timestamp alone
\* never makes the call return null: a page that rendered and gave a body
\* gives a record.
C26_MissingFieldsEmpty ==
  /\ ReturnedRecord =>
       /\ NoTitleFound(page) => result.title = ""
       /\ Len(Select(DomOf(page), DetailAuthorSelectors)) = 0 => result.author = ""
       /\ Len(Select(DomOf(page), DetailTimestampSelectors)) = 0
            => result.timestamp = ""
  /\ (Returned /\ candidate # "" /\ body # "") => result # Null

\* C26 witness: a record was returned for a page on which no title strategy
\* succeeds and no author or timestamp selector matches
C26_Witness ==
  /\ ReturnedRecord
  /\ NoTitleFound(page)
  /\ Len(Select(DomOf(page), DetailAuthorSelectors)) = 0
  /\ Len(Select(DomOf(page), DetailTimestampSelectors)) = 0
  /\ result.content # ""

(***************************************************************************)
(* Further claims about a bot session                                      *)
(***************************************************************************)
\* the step is one of the program, not the arrival of a signal
ProgramStep == exit' = "running"

\* C27: an exception raised inside one iteration of runBotCycle does not
\* end the session and does not change commentCount: the bot waits 30
\* seconds and tests the loop condition again, which still holds; and an
\* error on one post inside commentOnRecentPosts never keeps the remaining
\* posts of the list from being processed: the loop moves to the next post,
\* and after the last one the cycle completes as it does without an error.
C27_ErrorsContained ==
  [][/\ (spc = "iteration" /\ spc' = "retryDelay")
          => (commentCount' = commentCount /\ ProgramStep)
     /\ (spc = "retryDelay" /\ ProgramStep)
          => /\ spc' = "while"
             /\ commentCount' = commentCount
             /\ commentCount' < maxPostsPerSession
     /\ (spc = "postCatch" /\ ProgramStep)
          => IF cycleIdx < cycleRecent
             THEN spc' = "commenting" /\ cycleIdx' = cycleIdx + 1
             ELSE spc' = "afterCycle"
     /\ (spc = "commenting" /\ spc' \notin {"commenting", "postCatch"} /\ ProgramStep)
          => cycleIdx = cycleRecent]_vars

\* C27 witness: an iteration has thrown, the session went on to a later
\* iteration, and there an error on a post that is not the last of its list
\* has just been thrown
C27_Witness ==
  /\ spc = "postCatch"
  /\ cycleIdx < cycleRecent
  /\ "Error in comment cycle:" \in errorLog

\* runBotCycle has begun and the process has not ended
InBotCycle ==
  spc \in {"while", "iteration", "commenting", "postCatch", "afterCycle",
           "intervalDelay", "retryDelay", "cycleCleanup"}

\* C28: the bot cycle runs only after a successful login: runBotCycle
\* begins only once login() has completed with isLoggedIn set to true, and
\* isLoggedIn is true only after the login form was submitted and the
\* navigation finished; when login() throws, the bot cycle is never entered
\* and no comment is ever submitted.
C28_CycleOnlyAfterLogin ==
  /\ InBotCycle => isLoggedIn
  /\ isLoggedIn => loginForm = "navigated"
  /\ ~isLoggedIn =>
       /\ submissions = 0
       /\ commentCount = 0
       /\ cycleRecent = 0
       /\ errorLog = {}

\* C28 witness: login() threw after the form was submitted, the navigation
\* not finishing, and start() has returned through its catch
C28_Witness ==
  /\ spc = "returned"
  /\ ~isLoggedIn
  /\ loginForm = "submitted"
  /\ browser = "closed"

(***************************************************************************)
(* Further claims about commentOnRecentPosts, checked under SpecBot        *)
(***************************************************************************)
\* the button commentOnRecentPosts clicks on the page of post i
ClickedText(i) ==
  toLowerCase(trim(site[i].form.buttons[FindSubmitButton(site[i].form.buttons)].text))

\* C29: a submit click happens only after the comment text was typed into a
\* comment box on the page of the post it was generated for, with no other
\* navigation between getPostContent and the click; and the text of the
\* clicked button contains a submit keyword and none of the exclude
\* keywords explore, cancel, back, edit, delete, share, like, vote.
C29_ClickAfterTypingOnPostPage ==
  [][submitted' # submitted =>
       /\ submitted' = Append(submitted, idx)
       /\ shown = idx
       /\ site[idx].form.box
       /\ Len(generated) > 0 /\ generated[Len(generated)] = idx
       /\ Len(typed) > 0 /\ typed[Len(typed)] = idx
       /\ boxText = commentText
       /\ FindSubmitButton(site[idx].form.buttons) # 0
       /\ LET text == ClickedText(idx)
          IN  /\ \E w \in {"post", "submit", "reply", "send", "comment"} :
                   includes(text, w)
              /\ \A w \in {"explore", "cancel", "back", "edit", "delete",
                           "share", "like", "vote"} :
                   ~includes(text, w)]_vars

\* C29 witness: on a page that shows a button with a submit keyword and an
\* exclude keyword before the real one, a comment was submitted for the
\* second post of the list, after the page of the first had been shown
C29_Witness ==
  /\ bpc = "done"
  /\ Len(site) = 2
  /\ Len(submitted) > 0
  /\ submitted[Len(submitted)] = 2
  /\ \E b \in 1..Len(site[2].form.buttons) :
       /\ b < FindSubmitButton(site[2].form.buttons)
       /\ LooksLikeSubmitNoExclude(site[2].form.buttons[b].text)


(***************************************************************************)
(* C30: the summaries scrapeRecentPosts returns have pairwise different    *)
(* links                                                                   *)
(***************************************************************************)
\* two entries of the sequence carry the same link
HasRepeatedLink(list) ==
  \E i, j \in 1..Len(list) : i < j /\ list[i].link = list[j].link

\* C30: when scrapeRecentPosts has returned, no two summaries of the
\* returned sequence have the same link
C30_LinksDistinct ==
  lpc = "done" => ~HasRepeatedLink(listResult)

====
